---- MODULE Spec2Model ----
(***************************************************************************)
(* State-machine model of the agent orchestration control plane            *)
(* (backend/app): the board task engine, the agent lifecycle routes, the   *)
(* gateway provisioner and its registry patch, the template sync engine    *)
(* and the task-comment stream.                                            *)
(*                                                                         *)
(* Each subsystem has its own group of variables and its own               *)
(* specification (SpecTasks, SpecAgents, ...); a specification leaves the  *)
(* other groups at their initial value.                                    *)
(***************************************************************************)
EXTENDS Integers, Sequences, FiniteSets, TLC

VARIABLES
    agents,     \* DB table agents: id -> row (exists, board_id, is_board_lead, ...)
    tasks,      \* DB table tasks: id -> row (exists, board_id, status, assigned_agent_id, in_progress_at)
    deps,       \* DB table task_dependencies: set of <<task_id, depends_on_task_id>>
    events,     \* DB table activity_events, as the set of rows (type, task_id, agent_id)
    resp,       \* the response of the last request handled
    handled,    \* the number of agent lifecycle requests handled
    gwList,     \* gateway: config.agents.list, a sequence of entries
    regOps,     \* registry updates in flight: process -> (kind, entries, pc, fetched hash and list, ...)
    gwFiles,    \* gateway: the files of one agent workspace, name -> content
    provStart,  \* gwFiles when the last provisioning run started
    provRun,    \* the last provisioning run: its request, the gateway calls it issued, what it raised
    boardMemory,\* board -> its memory entries (content, is_chat), oldest first
    sync,       \* the template sync in progress: position, options, result, one record per agent handled
    comments,   \* the task.comment activity events, in id order: created_at of each
    stream,     \* one subscriber of the comment stream: last_seen, seen_queue, ids emitted
    hooks,      \* the webhook pipeline: rows committed, delivery queue, messages sent, worker log
    access,     \* the boards the viewer of the agents stream may read, now
    agentTimes, \* agent -> updated_at of its row
    agentFeed,  \* one subscriber of the agents stream: allowed_ids, last_seen, events emitted
    inflight,   \* requests between two of their commits: process -> (op, pc, what it holds)
    compat,     \* a gateway compatibility check: the gateway's answers, the probes issued, the result
    backoff     \* a _GatewayBackoff object and the run() call under way on it

dbVars == <<agents, tasks, deps, events>>
regVars == <<gwList, regOps>>
provVars == <<gwFiles, provStart, provRun>>
syncVars == <<boardMemory, sync>>
streamVars == <<comments, stream>>
feedVars == <<access, agentTimes, agentFeed>>
vars == <<agents, tasks, deps, events, resp, handled, gwList, regOps, gwFiles, provStart, provRun,
          boardMemory, sync, comments, stream, hooks, access, agentTimes, agentFeed, inflight, compat, backoff>>

NULL == "null"

(***************************************************************************)
(* Bounds of the model.                                                    *)
(***************************************************************************)
MaxTasks == 2
MaxListLen == 2     \* entries in the gateway's agent list before the updates
MaxBulk == 2        \* agents in one bulk heartbeat patch
MaxTokens == 7      \* distinct agent tokens
MaxEvents == 4      \* task.comment events
MaxTime == 2        \* distinct created_at values
MaxPolls == 3       \* polls of one subscriber
MaxRequests == 2    \* agent lifecycle requests
MaxPayloads == 2    \* webhook payloads ingested
MaxQueue == 1       \* capacity of the delivery queue
MaxRetries == 2     \* requeues of one delivery item
MaxMemory == 1      \* memory entries an agent adds to one board

TaskIds == 1..MaxTasks
Boards == {"b1", "b2"}
AgentIds == {"lead1", "worker1", "worker2"}
MainAgent == "main"         \* the gateway's main agent: no board
Workspaces == AgentIds \cup {MainAgent}
\* an id that names no agent row (a request may carry any uuid)
GhostAgent == "ghost"
Statuses == {"inbox", "in_progress", "review", "done"}

\* A response: the operation, the HTTP status, the detail's code or message, the
\* detail's blocked_by_task_ids, the task concerned, and of the request the
\* authenticated agent, the board of the route and the assignee it names; of an
\* agent lifecycle request the agent concerned and the token it generated.
Resp(op, code, detail, blocked, t, actor, board, assignee) ==
    [op |-> op, code |-> code, detail |-> detail, blocked_by |-> blocked, task |-> t,
     actor |-> actor, board |-> board, assignee |-> assignee, agent |-> NULL, token |-> 0]

NoResp == Resp("none", 200, "", {}, 0, NULL, NULL, NULL)

(***************************************************************************)
(* Database rows.                                                          *)
(***************************************************************************)
NoTask == [exists |-> FALSE, board_id |-> NULL, status |-> "inbox",
           assigned_agent_id |-> NULL, in_progress_at |-> FALSE]

\* app.core.agent_tokens (not part of the sources at hand): the stored hash
\* of a token verifies that token and no other.
NoTokenHash == <<>>
hash_agent_token(token) == <<"hash", token>>
verify_agent_token(token, stored) == stored = hash_agent_token(token)

\* No session key on the agent row (None or the empty string); a session key
\* is held as the list of its ":"-separated parts.
NoSession == <<>>
\* last_seen_at is None
NoTime == 0

AgentRow(board, lead) ==
    [exists |-> TRUE, board_id |-> board, is_board_lead |-> lead, agent_token_hash |-> NoTokenHash,
     status |-> "online", name |-> "", openclaw_session_id |-> NoSession, last_seen_at |-> NoTime]

\* No row under that id.
NoAgent == [AgentRow(NULL, FALSE) EXCEPT !.exists = FALSE, !.status = "none"]

\* The board fixture of the task-engine tests (a lead and a worker on the board),
\* and an agent of another board.
\* gateway.main_session_key of the gateway the boards are attached to
MainSessionKey == <<"main">>

BoardAgents ==
    [a \in Workspaces |->
        CASE a = "lead1"   -> [AgentRow("b1", TRUE) EXCEPT !.name = "Lead Agent",
                                    !.openclaw_session_id = <<"agent", "lead-agent", "main">>]
          [] a = "worker1" -> [AgentRow("b1", FALSE) EXCEPT !.name = "Worker One",
                                    !.openclaw_session_id = <<"agent", "worker-one", "main">>]
          [] a = "worker2" -> [AgentRow("b2", FALSE) EXCEPT !.name = "scout",
                                    !.openclaw_session_id = <<"agent", "scout", "main">>]
          [] a = MainAgent -> [AgentRow(NULL, FALSE) EXCEPT !.name = "main",
                                    !.openclaw_session_id = MainSessionKey]]

AgentExists(a) == a \in AgentIds /\ agents[a].exists

ExistingTasks == {t \in TaskIds : tasks[t].exists}

\* Task ids are allocated in creation order.
NextTaskId == Cardinality(ExistingTasks) + 1

(***************************************************************************)
(* services/task_dependencies (not part of the sources at hand).           *)
(***************************************************************************)
\* validate_dependency_update: every dependency is another task of the board.
DependenciesValid(board, t, ds) ==
    \A d \in ds : d /= t /\ d \in ExistingTasks /\ tasks[d].board_id = board

\* blocked_by_dependency_ids: the dependencies whose status is not done.
blocked_by_dependency_ids(ds) == {d \in ds : tasks[d].status /= "done"}

DepsOf(t) == {d \in TaskIds : <<t, d>> \in deps}

BlockedBy(t) == blocked_by_dependency_ids(DepsOf(t))

(***************************************************************************)
(* api/agent.py: the agent-scoped task route.                              *)
(***************************************************************************)
\* _guard_board_access
GuardBoardAccessOk(actor, board) ==
    ~(agents[actor].board_id /= NULL /\ agents[actor].board_id /= board)

\* Mutant: the lead check of create_task left out.
AssigneeIsLead_Skipped(assignee) == FALSE

\* The check in create_task that keeps a lead from being an assignee.
AssigneeIsLead(assignee) == agents[assignee].is_board_lead

\* create_task: the outcome of the checks, in the order the handler makes them.
CreateTaskOutcome(actor, board, status, assignee, ds) ==
    LET blocked == blocked_by_dependency_ids(ds)
        R(code, detail, b, t) == Resp("create_task", code, detail, b, t, actor, board, assignee)
    IN
    IF ~GuardBoardAccessOk(actor, board) THEN R(403, "", {}, 0)
    ELSE IF ~agents[actor].is_board_lead THEN R(403, "", {}, 0)
    ELSE IF ~DependenciesValid(board, NextTaskId, ds) THEN R(422, "dependency_invalid", {}, 0)
    ELSE IF blocked /= {} /\ (assignee /= NULL \/ status /= "inbox")
        THEN R(409, "Task is blocked by incomplete dependencies.", blocked, 0)
    ELSE IF assignee /= NULL /\ ~AgentExists(assignee) THEN R(404, "", {}, 0)
    ELSE IF assignee /= NULL /\ AssigneeIsLead(assignee)
        THEN R(403, "Board leads cannot assign tasks to themselves.", {}, 0)
    ELSE IF assignee /= NULL /\ agents[assignee].board_id /= NULL /\ agents[assignee].board_id /= board
        THEN R(409, "", {}, 0)
    ELSE R(200, "", blocked, NextTaskId)

create_task(actor, board, status, assignee, ds) ==
    /\ agents[actor].exists
    /\ NextTaskId \in TaskIds
    /\ LET out == CreateTaskOutcome(actor, board, status, assignee, ds) IN
        /\ resp' = out
        /\ IF out.code = 200
            THEN /\ tasks' = [tasks EXCEPT ![NextTaskId] =
                        [exists |-> TRUE, board_id |-> board, status |-> status,
                         assigned_agent_id |-> assignee, in_progress_at |-> FALSE]]
                 /\ deps' = deps \cup {<<NextTaskId, d>> : d \in ds}
                 /\ events' = events \cup
                        {[type |-> "task.created", task_id |-> NextTaskId, agent_id |-> actor]}
            ELSE UNCHANGED <<tasks, deps, events>>
    /\ UNCHANGED <<agents, handled, regVars, provVars, syncVars, streamVars, hooks, feedVars, inflight, compat, backoff>>

(***************************************************************************)
(* api/tasks.py, _apply_lead_task_update (not part of the sources at hand; *)
(* modelled from the specification and from the tests that call it).       *)
(* `fields` is the set of fields the PATCH sets, among status and          *)
(* assigned_agent_id.                                                      *)
(***************************************************************************)
\* Mutant: only a status change is refused on a blocked task.
LeadUpdateBlocked_StatusOnly(t, fields) ==
    BlockedBy(t) /= {} /\ "status" \in fields

LeadUpdateBlocked(t, fields) ==
    BlockedBy(t) /= {} /\ fields \cap {"status", "assigned_agent_id"} /= {}

LeadUpdateOutcome(actor, t, fields, status, assignee) ==
    LET board == tasks[t].board_id
        assigns == "assigned_agent_id" \in fields /\ assignee /= NULL
        R(code, detail, b) ==
            Resp("lead_update", code, detail, b, t, actor, board, IF assigns THEN assignee ELSE NULL)
    IN
    IF ~GuardBoardAccessOk(actor, board) THEN R(403, "", {})
    ELSE IF LeadUpdateBlocked(t, fields) THEN R(409, "task_blocked_cannot_transition", BlockedBy(t))
    ELSE IF assigns /\ ~AgentExists(assignee) THEN R(404, "", {})
    ELSE IF assigns /\ agents[assignee].is_board_lead
        THEN R(403, "Board leads cannot assign tasks to themselves.", {})
    ELSE IF assigns /\ agents[assignee].board_id /= NULL /\ agents[assignee].board_id /= board
        THEN R(409, "", {})
    ELSE R(200, "", {})

apply_lead_task_update(actor, t, fields, status, assignee) ==
    /\ AgentExists(actor) /\ agents[actor].is_board_lead
    /\ t \in ExistingTasks
    /\ fields /= {}
    /\ LET out == LeadUpdateOutcome(actor, t, fields, status, assignee)
           newStatus == IF "status" \in fields THEN status ELSE tasks[t].status
           newAssignee == IF "assigned_agent_id" \in fields THEN assignee ELSE tasks[t].assigned_agent_id
       IN
        /\ resp' = out
        /\ IF out.code = 200
            THEN /\ tasks' = [tasks EXCEPT ![t] =
                        [@ EXCEPT !.status = newStatus,
                                  !.assigned_agent_id = newAssignee,
                                  !.in_progress_at =
                                      IF newStatus = "in_progress" THEN TRUE
                                      ELSE IF newStatus = "inbox" THEN FALSE ELSE @]]
                 /\ events' = events \cup
                        {[type |-> "task.updated", task_id |-> t, agent_id |-> actor]}
            ELSE UNCHANGED <<tasks, events>>
    /\ UNCHANGED <<agents, deps, handled, regVars, provVars, syncVars, streamVars, hooks, feedVars, inflight, compat, backoff>>

\* The database before the requests.
InitDb ==
    /\ agents = BoardAgents
    /\ tasks = [t \in TaskIds |-> NoTask]
    /\ deps = {}
    /\ events = {}
    /\ resp = NoResp /\ handled = 0

(***************************************************************************)
(* The gateway's configuration document (external to the repository; its   *)
(* interface is modelled from the specification): config.get answers       *)
(* {hash, config}, config.patch replaces agents.list and is refused when   *)
(* the baseHash it carries is not the hash of the current configuration.   *)
(***************************************************************************)
AgentKeys == {"k1", "k2", "k3"}
Heartbeats == {"hb_default", "hb_custom"}
RegProcs == {"p1", "p2"}
WorkspaceRoot == "/ws"

\* The hash of a configuration is a function of its content.
ConfigHash(lst) == <<lst>>
NoHash == <<>>

\* config.patch with params {raw, baseHash?}
ConfigPatchAccepted(params) ==
    params.baseHash = NoHash \/ params.baseHash = ConfigHash(gwList)

(***************************************************************************)
(* services/agent_provisioning.py: the registry patch.                     *)
(***************************************************************************)
\* _workspace_path: "<root>/workspace-<slug(key)>"
WorkspacePath(key) == [root |-> WorkspaceRoot, dir |-> key]

Entry(id, ws, hb) == [id |-> id, workspace |-> ws, heartbeat |-> hb, extra |-> "none"]

\* An entry the gateway already lists: an older workspace and heartbeat and a
\* field the control plane does not write.
ListedEntry(id) == [id |-> id, workspace |-> [root |-> "/old", dir |-> id],
                    heartbeat |-> "hb_old", extra |-> "model"]

IdsOf(lst) == {lst[i].id : i \in 1..Len(lst)}

\* Mutant: only the first entry with the id is rewritten.
UpsertAgentEntry_FirstOnly(lst, id, ws, hb) ==
    LET replaced == [i \in 1..Len(lst) |->
                        IF lst[i].id = id /\ \A j \in 1..(i - 1) : lst[j].id /= id
                        THEN [lst[i] EXCEPT !.workspace = ws, !.heartbeat = hb]
                        ELSE lst[i]]
    IN IF id \in IdsOf(lst) THEN replaced ELSE Append(replaced, Entry(id, ws, hb))

\* _patch_gateway_agent_list, the loop that builds new_list
UpsertAgentEntry(lst, id, ws, hb) ==
    LET replaced == [i \in 1..Len(lst) |->
                        IF lst[i].id = id
                        THEN [lst[i] EXCEPT !.workspace = ws, !.heartbeat = hb]
                        ELSE lst[i]]
    IN IF id \in IdsOf(lst) THEN replaced ELSE Append(replaced, Entry(id, ws, hb))

\* _heartbeat_entry_map: a dict keyed by agent id; a later entry of the same id
\* replaces the value, the key keeps its first position.
RECURSIVE HeartbeatKeyOrder(_)
HeartbeatKeyOrder(entries) ==
    IF entries = <<>> THEN <<>>
    ELSE LET front == HeartbeatKeyOrder(SubSeq(entries, 1, Len(entries) - 1))
             last == entries[Len(entries)]
         IN IF \E i \in 1..Len(front) : front[i] = last.id THEN front ELSE Append(front, last.id)

HeartbeatEntryMap(entries) ==
    [id \in {entries[i].id : i \in 1..Len(entries)} |->
        LET i == CHOOSE i \in 1..Len(entries) :
                    entries[i].id = id /\ \A j \in (i + 1)..Len(entries) : entries[j].id /= id
        IN entries[i]]

\* _updated_agent_list
RECURSIVE AppendMissing(_, _, _)
AppendMissing(lst, order, byId) ==
    IF order = <<>> THEN lst
    ELSE LET id == Head(order)
             next == IF id \in IdsOf(lst) THEN lst
                     ELSE Append(lst, Entry(id, byId[id].workspace, byId[id].heartbeat))
         IN AppendMissing(next, Tail(order), byId)

\* Mutant: the requested ids the list does not hold are not appended.
UpdatedAgentList_NoAppend(lst, entries) ==
    LET byId == HeartbeatEntryMap(entries)
    IN [i \in 1..Len(lst) |->
            IF lst[i].id \in DOMAIN byId
            THEN [lst[i] EXCEPT !.workspace = byId[lst[i].id].workspace,
                                !.heartbeat = byId[lst[i].id].heartbeat]
            ELSE lst[i]]

UpdatedAgentList(lst, entries) ==
    LET byId == HeartbeatEntryMap(entries)
        replaced == [i \in 1..Len(lst) |->
                        IF lst[i].id \in DOMAIN byId
                        THEN [lst[i] EXCEPT !.workspace = byId[lst[i].id].workspace,
                                            !.heartbeat = byId[lst[i].id].heartbeat]
                        ELSE lst[i]]
    IN AppendMissing(replaced, HeartbeatKeyOrder(entries), byId)

\* _remove_gateway_agent_list, the list comprehension
RemoveAgentEntry(lst, id) == SelectSeq(lst, LAMBDA e : e.id /= id)

\* Mutant: the patch is sent without the hash that config.get returned.
PatchParams_NoBaseHash(new_list, base_hash) == [raw |-> new_list, baseHash |-> NoHash]

\* params = {"raw": json.dumps(patch)}; if base_hash: params["baseHash"] = base_hash
PatchParams(new_list, base_hash) ==
    [raw |-> new_list, baseHash |-> IF base_hash /= NoHash THEN base_hash ELSE NoHash]

\* One registry update: kind patch (provision), remove (cleanup) or bulk
\* (heartbeat patch); entries is the request: a sequence of (id, workspace,
\* heartbeat), for remove only the id counts.
IdleOp == [kind |-> "none", entries |-> <<>>, pc |-> "none", base_hash |-> NoHash,
           lst |-> <<>>, gets |-> 0, error |-> ""]

OpIds(op) == {op.entries[i].id : i \in 1..Len(op.entries)}

\* The list an update sends, computed from the list it fetched.
NewList(op, lst) ==
    CASE op.kind = "patch"  -> UpsertAgentEntry(lst, op.entries[1].id, op.entries[1].workspace,
                                                 op.entries[1].heartbeat)
      [] op.kind = "bulk"   -> UpdatedAgentList(lst, op.entries)
      [] op.kind = "remove" -> RemoveAgentEntry(lst, op.entries[1].id)

\* A caller starts a registry update.
RegStart(p, kind, entries) ==
    /\ regOps[p].pc = "none"
    /\ \A q \in RegProcs \ {p} : OpIds(regOps[q]) \cap {entries[i].id : i \in 1..Len(entries)} = {}
    /\ regOps' = [regOps EXCEPT ![p] = [IdleOp EXCEPT !.kind = kind, !.entries = entries, !.pc = "get"]]
    /\ UNCHANGED gwList

\* cfg = await openclaw_call("config.get"), and the local computation up to
\* the next gateway call; cleanup returns here when the list holds no such id.
RegConfigGet(p) ==
    /\ regOps[p].pc = "get"
    /\ LET op == regOps[p]
           nothingToRemove == op.kind = "remove" /\ Len(RemoveAgentEntry(gwList, op.entries[1].id)) = Len(gwList)
       IN regOps' = [regOps EXCEPT ![p] =
                        [op EXCEPT !.base_hash = ConfigHash(gwList), !.lst = gwList,
                                   !.gets = op.gets + 1,
                                   !.pc = IF nothingToRemove THEN "done" ELSE "patch"]]
    /\ UNCHANGED gwList

\* await openclaw_call("config.patch", params): accepted, or refused for a
\* stale baseHash; the error reaches the caller.
RegConfigPatch(p) ==
    /\ regOps[p].pc = "patch"
    /\ LET op == regOps[p]
           params == PatchParams(NewList(op, op.lst), op.base_hash)
       IN IF ConfigPatchAccepted(params)
          THEN /\ gwList' = params.raw
               /\ regOps' = [regOps EXCEPT ![p] = [op EXCEPT !.pc = "done"]]
          ELSE /\ regOps' = [regOps EXCEPT ![p] = [op EXCEPT !.pc = "failed", !.error = "conflict"]]
               /\ UNCHANGED gwList

\* A gateway call fails for another reason (OpenClawGatewayError).
RegGatewayError(p) ==
    /\ regOps[p].pc \in {"get", "patch"}
    /\ regOps' = [regOps EXCEPT ![p] = [@ EXCEPT !.pc = "failed", !.error = "gateway"]]
    /\ UNCHANGED gwList

\* Sequences without repetition over a set, up to a length.
RECURSIVE DistinctSeqs(_, _)
DistinctSeqs(S, n) ==
    IF n = 0 THEN {<<>>}
    ELSE LET shorter == DistinctSeqs(S, n - 1)
         IN shorter \cup {Append(q, x) : q \in {r \in shorter : Len(r) = n - 1}, x \in S}

NoRepeat(q) == \A i, j \in 1..Len(q) : i /= j => q[i] /= q[j]

InitialLists ==
    {[i \in 1..Len(ks) |-> ListedEntry(ks[i])] : ks \in {q \in DistinctSeqs(AgentKeys, MaxListLen) : NoRepeat(q)}}

RequestEntries(n) ==
    {[i \in 1..Len(ks) |-> [id |-> ks[i], workspace |-> WorkspacePath(ks[i]), heartbeat |-> hb]] :
        ks \in {q \in DistinctSeqs(AgentKeys, n) : NoRepeat(q) /\ q /= <<>>}, hb \in Heartbeats}

(***************************************************************************)
(* services/agent_provisioning.py: the workspace files of an agent.        *)
(* Five of the gateway files are modelled; FileOrder is sorted(file_names).*)
(***************************************************************************)
FileNames == {"BOOTSTRAP.md", "MEMORY.md", "SELF.md", "TOOLS.md", "USER.md"}
FileOrder == <<"BOOTSTRAP.md", "MEMORY.md", "SELF.md", "TOOLS.md", "USER.md">>
PRESERVE_AGENT_EDITABLE_FILES == {"SELF.md", "USER.md", "MEMORY.md"}
Tokens == 1..MaxTokens
NoToken == 0

\* File contents: absent, written in the workspace by the agent or the user,
\* rendered from a template (TOOLS.md carries AUTH_TOKEN), the MEMORY.md
\* fallback text, or the empty string.
Content(kind, token) == [kind |-> kind, token |-> token]
Absent == Content("absent", NoToken)
Edited == Content("edited", NoToken)
EmptyContent == Content("empty", NoToken)

\* _gateway_agent_files_index: name -> entry; {} when agents.files.list raises.
\* The gateway lists the files that exist and, with listing = "ok_missing",
\* also the missing ones flagged missing.
GatewayAgentFilesIndex(files, listing) ==
    LET listed == CASE listing = "error" -> {}
                    [] listing = "ok" -> {n \in FileNames : files[n] /= Absent}
                    [] listing = "ok_missing" -> FileNames
    IN [n \in listed |-> [missing |-> files[n] = Absent]]

\* _should_include_bootstrap
ShouldIncludeBootstrap(action, force_bootstrap, existing_files) ==
    IF action /= "update" \/ force_bootstrap THEN TRUE
    ELSE IF DOMAIN existing_files = {} THEN FALSE
    ELSE ~("BOOTSTRAP.md" \in DOMAIN existing_files /\ existing_files["BOOTSTRAP.md"].missing)

\* _render_agent_files; templates is the set of names whose template exists.
RenderAgentFiles(token, file_names, include_bootstrap, templates) ==
    [n \in {m \in file_names : m /= "BOOTSTRAP.md" \/ include_bootstrap} |->
        IF n \in templates THEN Content("rendered", IF n = "TOOLS.md" THEN token ELSE NoToken)
        ELSE IF n = "MEMORY.md" THEN Content("fallback", NoToken)
        ELSE EmptyContent]

\* A run in progress: the gateway's files and agent list, the calls issued so
\* far and the call that raised ("" while none did).
Call(method, name) == [method |-> method, name |-> name]

\* Mutant: a call is issued whether or not an earlier one raised.
CallStep_Regardless(st, method, fails) ==
    [st EXCEPT !.calls = Append(@, Call(method, NULL)),
               !.raised = IF @ /= "" THEN @ ELSE IF fails THEN method ELSE ""]

CallStep(st, method, fails) ==
    IF st.raised /= "" THEN st
    ELSE [st EXCEPT !.calls = Append(@, Call(method, NULL)),
                    !.raised = IF fails THEN method ELSE ""]

\* entry = existing_files.get(name); entry and entry.get("missing") is not True
PreservedOnGateway(name, existing_files) ==
    /\ name \in PRESERVE_AGENT_EDITABLE_FILES
    /\ name \in DOMAIN existing_files
    /\ ~existing_files[name].missing

\* _set_agent_files: the loop over rendered.items()
RECURSIVE SetAgentFiles(_, _, _, _, _)
SetAgentFiles(names, rendered, existing_files, in, st) ==
    IF names = <<>> \/ st.raised /= "" THEN st
    ELSE LET name == Head(names)
             skip == \/ name \notin DOMAIN rendered
                     \/ rendered[name] = EmptyContent
                     \/ PreservedOnGateway(name, existing_files)
             called == [st EXCEPT !.calls = Append(@, Call("agents.files.set", name))]
             next == IF skip THEN st
                     ELSE IF in.fail = "set_error" /\ in.failFile = name
                          THEN [called EXCEPT !.raised = "agents.files.set"]
                     ELSE IF in.fail = "set_unsupported" /\ in.failFile = name
                          THEN called
                     ELSE [called EXCEPT !.files = [@ EXCEPT ![name] = rendered[name]]]
         IN SetAgentFiles(Tail(names), rendered, existing_files, in, next)

\* provision_agent (in.main = FALSE) and provision_main_agent (in.main = TRUE,
\* where the step after ensure_session is _gateway_default_agent_id and the
\* failure "config.patch" stands for an agent id that cannot be resolved).
ProvisionRun(in, files, lst) ==
    LET st0 == [files |-> files, lst |-> lst, calls |-> <<>>, raised |-> ""]
        s1 == CallStep(st0, "ensure_session", in.fail = "ensure_session")
        patched == CallStep(s1, "config.patch", in.fail = "config.patch")
        s2 == IF in.main THEN CallStep(s1, "agents.list", in.fail = "config.patch")
              ELSE IF patched.raised /= "" THEN patched
              ELSE [patched EXCEPT !.lst = UpsertAgentEntry(lst, in.key, WorkspacePath(in.key), in.hb)]
        supported == in.reported \cup {"USER.md", "SELF.md"}
        s3 == CallStep(s2, "agents.files.list", FALSE)
        existing_files == GatewayAgentFilesIndex(files, in.listing)
        include_bootstrap == ShouldIncludeBootstrap(in.action, in.force_bootstrap, existing_files)
        rendered == RenderAgentFiles(in.token, supported, include_bootstrap, in.templates)
        s4 == SetAgentFiles(FileOrder, rendered, existing_files, in, s3)
    IN IF in.reset_session THEN CallStep(s4, "sessions.reset", in.fail = "sessions.reset") ELSE s4

\* What the gateway and the template directory may answer during a run.
RunInputs(keys, actions, flags, tokens, listings, reports, templateSets, fails) ==
    {[main |-> k = MainAgent, action |-> a, force_bootstrap |-> fb, reset_session |-> rs, token |-> t,
      key |-> k, hb |-> "hb_default", listing |-> l, reported |-> r, templates |-> ts,
      fail |-> f.fail, failFile |-> f.failFile] :
        k \in keys, a \in actions, fb \in flags, rs \in flags, t \in tokens,
        l \in listings, r \in reports, ts \in templateSets, f \in fails}

Failures ==
    {[fail |-> f, failFile |-> NULL] : f \in {"none", "ensure_session", "config.patch", "sessions.reset"}}
    \cup {[fail |-> f, failFile |-> n] : f \in {"set_error", "set_unsupported"}, n \in FileNames}

AllRunInputs ==
    RunInputs({"worker1", MainAgent}, {"provision", "update"}, BOOLEAN, {1}, {"ok", "ok_missing", "error"},
              {FileNames, {"TOOLS.md"}}, {FileNames, FileNames \ {"MEMORY.md", "SELF.md"}}, Failures)

NoRun == [in |-> CHOOSE i \in AllRunInputs : TRUE, calls |-> <<>>, raised |-> "", ran |-> FALSE]

\* A provisioning run, on whatever the workspace holds by then.
Provision(in) ==
    LET out == ProvisionRun(in, gwFiles[in.key], gwList)
       IN /\ gwFiles' = [gwFiles EXCEPT ![in.key] = out.files]
          /\ gwList' = out.lst
          /\ provStart' = gwFiles
          /\ provRun' = [in |-> in, calls |-> out.calls, raised |-> out.raised, ran |-> TRUE]

(***************************************************************************)
(* services/template_sync.py: the template sync of one gateway.            *)
(***************************************************************************)
\* A board memory row, and what lower(trim(content)) makes of the contents
\* that are modelled.
Memory(content, is_chat) == [content |-> content, is_chat |-> is_chat]
Chat(content) == Memory(content, TRUE)
LowerTrim(content) ==
    CASE content = " /Pause "  -> "/pause"
      [] content = "/RESUME"   -> "/resume"
      [] OTHER -> content

\* Mutant: a board is paused when its latest chat entry is /pause.
PausedBoardIds_LatestEntry ==
    {b \in Boards :
        LET chat == SelectSeq(boardMemory[b], LAMBDA e : e.is_chat)
        IN chat /= <<>> /\ LowerTrim(chat[Len(chat)].content) = "/pause"}

\* _paused_board_ids: of the chat entries that are a /pause or /resume
\* command, the latest of the board is /pause
PausedBoardIds ==
    {b \in Boards :
        LET commands == SelectSeq(boardMemory[b],
                            LAMBDA e : e.is_chat /\ LowerTrim(e.content) \in {"/pause", "/resume"})
        IN commands /= <<>> /\ LowerTrim(commands[Len(commands)].content) = "/pause"}

\* generate_agent_token: a token that is nowhere in use
TokensInUse ==
    {gwFiles[k]["TOOLS.md"].token : k \in Workspaces}
    \cup {t \in Tokens : \E a \in Workspaces : agents[a].agent_token_hash = hash_agent_token(t)}

generate_agent_token ==
    CHOOSE t \in Tokens : t \notin TokensInUse /\ \A u \in Tokens : u < t => u \in TokensInUse

\* Mutant: a gateway that stays unreachable until the deadline is taken for
\* one that answered.
BackoffRun_NoDeadline(value, error) ==
    IF error = "transient" THEN ""
    ELSE IF error /= "" THEN "OpenClawGatewayError"
    ELSE IF value = "None" THEN "RuntimeError"
    ELSE ""

\* _GatewayBackoff.run: what the call raises ("" when it returns), given what
\* fn returned and the error it raised: "transient" is a transient gateway
\* error that lasts until the deadline, any other error is raised at once.
BackoffRun(value, error) ==
    IF error = "transient" THEN "TimeoutError"
    ELSE IF error /= "" THEN "OpenClawGatewayError"
    ELSE IF value = "None" THEN "RuntimeError"
    ELSE ""

\* _base_result, _append_sync_error
BaseResult == [agents_updated |-> 0, agents_skipped |-> 0, main_updated |-> FALSE, errors |-> <<>>]
SyncError(agent, message) == [agent |-> agent, message |-> message]

\* Mutant: a missing or stale token is re-keyed whatever the options say.
MayRotate_Always(options) == TRUE

\* ctx.options.rotate_tokens
MayRotate(options) == options.rotate_tokens

\* _resolve_agent_auth_token, with _get_existing_auth_token: read is what
\* agents.files.get does ("ok": the content of TOOLS.md; "error": a gateway
\* error, read as no file; "transient": unreachable until the deadline).
ResolveAgentAuthToken(a, options, read) ==
    LET existing == IF read = "ok" THEN gwFiles[a]["TOOLS.md"].token ELSE NoToken
        stored == agents[a].agent_token_hash
        fresh == generate_agent_token
        R(token, fatal, skipped, errors, hash) ==
            [token |-> token, fatal |-> fatal, skipped |-> skipped, errors |-> errors,
             hash |-> hash, existing |-> existing, rotated |-> hash /= stored]
    IN IF read = "transient"
       THEN R(NoToken, TRUE, 0, <<SyncError(a, "TimeoutError")>>, stored)
       ELSE IF existing = NoToken
       THEN IF ~MayRotate(options)
            THEN R(NoToken, FALSE, 1, <<SyncError(a, "unable to read AUTH_TOKEN")>>, stored)
            ELSE R(fresh, FALSE, 0, <<>>, hash_agent_token(fresh))
       ELSE IF stored /= NoTokenHash /\ ~verify_agent_token(existing, stored)
       THEN IF MayRotate(options)
            THEN R(fresh, FALSE, 0, <<>>, hash_agent_token(fresh))
            ELSE R(existing, FALSE, 0, <<SyncError(a, "AUTH_TOKEN does not match")>>, stored)
       ELSE R(existing, FALSE, 0, <<>>, stored)

\* The agents of the gateway's boards, by created_at.
SyncedAgents == SelectSeq(<<"lead1", "worker1", "worker2">>, LAMBDA a : agents[a].exists)

IdleSync ==
    [pc |-> "idle", options |-> [rotate_tokens |-> FALSE, include_main |-> FALSE],
     cursor |-> 1, result |-> BaseResult, steps |-> <<>>, ping |-> ""]

\* Mutant: the loop does not break on stop_sync.
Advance_NeverStop(s, cursor, stop) ==
    [s EXCEPT !.cursor = cursor,
              !.pc = IF cursor <= Len(SyncedAgents) THEN "agents"
                     ELSE IF s.options.include_main THEN "main" ELSE "done"]

\* The loop of sync_gateway_templates moves on, or stops.
Advance(s, cursor, stop) ==
    [s EXCEPT !.cursor = cursor,
              !.pc = IF stop THEN "done"
                     ELSE IF cursor <= Len(SyncedAgents) THEN "agents"
                     ELSE IF s.options.include_main THEN "main" ELSE "done"]

\* sync_gateway_templates up to the loop: the result, the agents.list ping
\* (_ping_gateway); `ping` is how the gateway answers agents.list: "" with the
\* list, "error" with a gateway error that is not transient, "transient"
\* with one that lasts until the deadline of the backoff.
StartSync(options, ping) ==
    /\ sync.pc = "idle"
    /\ LET exc == BackoffRun("payload", ping)
           started == [IdleSync EXCEPT !.options = options, !.ping = ping]
       IN sync' = IF exc = "" THEN Advance(started, 1, FALSE)
                  ELSE [started EXCEPT !.pc = "done", !.result.errors = <<SyncError(NULL, exc)>>]
    /\ UNCHANGED <<dbVars, resp, handled, regVars, provVars, boardMemory, streamVars, hooks, feedVars, inflight, compat, backoff>>

\* The run a sync asks for: action update, every template at hand, the
\* listing answered; fail says which gateway call fails, if any.
SyncRunInput(key, token, fail) ==
    CHOOSE i \in RunInputs({key}, {"update"}, {FALSE}, {token}, {"ok"}, {FileNames}, {FileNames}, {fail}) : TRUE

\* The error fn raises to the backoff, from the call of the run that raised.
RunError(raised, transient) ==
    IF raised = "" THEN "" ELSE IF transient /\ raised = "ensure_session" THEN "transient" ELSE "error"

Step(a, r, provisioned, raised, exc) ==
    [agent |-> a, existing |-> r.existing, fatal |-> r.fatal, rotated |-> r.rotated,
     token |-> r.token, provisioned |-> provisioned, raised |-> raised, exc |-> exc]

\* One turn of the loop over the agents: the paused check and _sync_one_agent.
SyncOneAgent(read, fail, transient) ==
    /\ sync.pc = "agents"
    /\ Tokens \ TokensInUse /= {}
    /\ LET a == SyncedAgents[sync.cursor]
           r == ResolveAgentAuthToken(a, sync.options, read)
           resolved == [sync EXCEPT !.result.agents_skipped = @ + r.skipped,
                                    !.result.errors = @ \o r.errors]
       IN IF agents[a].board_id \in PausedBoardIds
          THEN /\ sync' = Advance([sync EXCEPT !.result.agents_skipped = @ + 1], sync.cursor + 1, FALSE)
               /\ UNCHANGED <<agents, gwList, provVars>>
          ELSE /\ agents' = [agents EXCEPT ![a].agent_token_hash = r.hash]
               /\ IF r.fatal \/ r.token = NoToken
                  THEN /\ sync' = Advance([resolved EXCEPT !.steps = Append(@, Step(a, r, FALSE, "", ""))],
                                          sync.cursor + 1, r.fatal)
                       /\ UNCHANGED <<gwList, provVars>>
                  ELSE LET in == SyncRunInput(a, r.token, fail)
                            exc == BackoffRun("None", RunError(ProvisionRun(in, gwFiles[a], gwList).raised, transient))
                            counted == IF exc = ""
                                       THEN [resolved EXCEPT !.result.agents_updated = @ + 1]
                                       ELSE [resolved EXCEPT !.result.agents_skipped = @ + 1,
                                                             !.result.errors = Append(@, SyncError(a, exc))]
                        IN /\ Provision(in)
                           /\ sync' = Advance([counted EXCEPT !.steps =
                                                  Append(@, Step(a, r, TRUE, provRun'.raised, exc))],
                                              sync.cursor + 1, exc = "TimeoutError")
    /\ UNCHANGED <<tasks, deps, events, resp, handled, regOps, boardMemory, streamVars, hooks, feedVars, inflight, compat, backoff>>

\* _sync_main_agent; resolved says what _gateway_default_agent_id answers.
SyncMainAgent(resolved, read, fail, transient) ==
    /\ sync.pc = "main"
    /\ Tokens \ TokensInUse /= {}
    /\ LET a == MainAgent
           r == ResolveAgentAuthToken(a, sync.options, read)
           done == [sync EXCEPT !.pc = "done"]
           after == [done EXCEPT !.result.agents_skipped = @ + r.skipped,
                                 !.result.errors = @ \o r.errors]
       IN IF ~agents[a].exists \/ resolved /= "ok"
          THEN /\ sync' = [done EXCEPT !.result.errors =
                              Append(@, SyncError(IF agents[a].exists THEN a ELSE NULL,
                                                  IF resolved = "transient" THEN "TimeoutError"
                                                  ELSE "main agent not resolved"))]
               /\ UNCHANGED <<agents, gwList, provVars>>
          ELSE /\ agents' = [agents EXCEPT ![a].agent_token_hash = r.hash]
               /\ IF r.fatal \/ r.token = NoToken
                  THEN /\ sync' = [after EXCEPT !.steps = Append(@, Step(a, r, FALSE, "", "")),
                                                !.result.errors =
                                                    IF r.fatal THEN @
                                                    ELSE Append(@, SyncError(a, "Skipping main agent"))]
                       /\ UNCHANGED <<gwList, provVars>>
                  ELSE LET in == SyncRunInput(a, r.token, fail)
                            exc == BackoffRun("None", RunError(ProvisionRun(in, gwFiles[a], gwList).raised, transient))
                            counted == IF exc = ""
                                       THEN [after EXCEPT !.result.main_updated = TRUE]
                                       ELSE [after EXCEPT !.result.errors = Append(@, SyncError(a, exc))]
                        IN /\ Provision(in)
                           /\ sync' = [counted EXCEPT !.steps =
                                          Append(@, Step(a, r, TRUE, provRun'.raised, exc))]
    /\ UNCHANGED <<tasks, deps, events, resp, handled, regOps, boardMemory, streamVars, hooks, feedVars, inflight, compat, backoff>>

InitSyncIdle ==
    /\ boardMemory = [b \in Boards |-> <<>>]
    /\ sync = IdleSync

(***************************************************************************)
(* api/activity.py: the task-comment stream of one subscriber.             *)
(***************************************************************************)
\* SSE_SEEN_MAX = 2000 in the source; the model keeps the FIFO and scales its
\* length down so that an eviction is within reach.
SSE_SEEN_MAX == 2

Times == 1..MaxTime

\* _fetch_task_comment_events: the events with created_at >= since, ordered
\* by created_at; the order among equal created_at is the database's.
FetchTaskCommentEvents(since) ==
    LET ids == {id \in 1..Len(comments) : comments[id] >= since}
    IN {rows \in DistinctSeqs(ids, Cardinality(ids)) :
            /\ Len(rows) = Cardinality(ids)
            /\ NoRepeat(rows)
            /\ \A i \in 1..(Len(rows) - 1) : comments[rows[i]] <= comments[rows[i + 1]]}

\* Mutant: the seen set is never consulted.
AlreadySeen_Never(event_id, seen_queue) == FALSE

\* event_id in seen_ids (seen_ids holds exactly the ids of seen_queue)
AlreadySeen(event_id, seen_queue) == \E i \in 1..Len(seen_queue) : seen_queue[i] = event_id

\* event_generator, the loop over the rows of one poll
RECURSIVE EmitRows(_, _)
EmitRows(rows, st) ==
    IF rows = <<>> THEN st
    ELSE LET event_id == Head(rows)
             appended == Append(st.seen_queue, event_id)
             next == IF AlreadySeen(event_id, st.seen_queue) THEN st
                     ELSE [st EXCEPT !.seen_queue = IF Len(appended) > SSE_SEEN_MAX
                                                    THEN Tail(appended) ELSE appended,
                                     !.last_seen = IF comments[event_id] > @ THEN comments[event_id] ELSE @,
                                     !.emitted = Append(@, event_id)]
         IN EmitRows(Tail(rows), next)

\* A task comment is recorded.
AddComment(created_at) ==
    /\ Len(comments) < MaxEvents
    /\ comments' = Append(comments, created_at)
    /\ UNCHANGED stream

\* One turn of event_generator's loop.
Poll ==
    /\ stream.polls < MaxPolls
    /\ \E rows \in FetchTaskCommentEvents(stream.last_seen) :
            stream' = [EmitRows(rows, stream) EXCEPT !.polls = @ + 1]
    /\ UNCHANGED comments

InitStreamIdle ==
    /\ comments = <<>>
    /\ stream = [last_seen |-> 1, seen_queue |-> <<>>, emitted |-> <<>>, polls |-> 0]

(***************************************************************************)
(* api/agents.py: the agent lifecycle routes create_agent, update_agent    *)
(* and delete_agent.  The boards share one gateway; an agent row is keyed  *)
(* by the agent's name, which _ensure_unique_agent_name keeps unique.      *)
(***************************************************************************)
\* The organization admin, as the actor of a request.
Admin == "admin"

AgentResp(op, code, detail, agent, token) ==
    [Resp(op, code, detail, {}, 0, NULL, NULL, NULL) EXCEPT !.agent = agent, !.token = token]

\* record_activity for an agent event
Ev(type, agent) == [type |-> type, task_id |-> 0, agent_id |-> agent]

\* How the gateway answers during one request: the agents.files.list answer,
\* the provisioning call that fails or, when none does, whether the wakeup
\* message that follows is delivered.  A gateway that refuses ensure_session
\* refuses it throughout the request.
GatewayAnswers ==
    {[listing |-> "ok", fail |-> o[1].fail, failFile |-> o[1].failFile, wakeup |-> o[2]] :
        o \in {x \in Failures \X BOOLEAN :
                    /\ x[1].failFile \in {NULL, "TOOLS.md"}
                    /\ x[1].fail /= "config.patch"
                    /\ x[2] \/ x[1].fail = "none"}}

\* AgentProvisionRequest / MainAgentProvisionRequest of a lifecycle route
LifecycleRunInput(key, action, force_bootstrap, reset_session, token, g) ==
    [main |-> key = MainAgent, action |-> action, force_bootstrap |-> force_bootstrap,
     reset_session |-> reset_session, token |-> token, key |-> key, hb |-> "hb_default",
     listing |-> g.listing, reported |-> FileNames, templates |-> FileNames,
     fail |-> g.fail, failFile |-> g.failFile]

\* _persist_new_agent: the row committed before provisioning
PersistNewAgent(board, raw_token) ==
    [AgentRow(board, FALSE) EXCEPT !.status = "provisioning",
                                   !.agent_token_hash = hash_agent_token(raw_token)]

\* Mutant: the update keeps the stored hash.
MarkAgentUpdatePending_KeepHash(row, raw_token) == [row EXCEPT !.status = "updating"]

\* _mark_agent_update_pending
MarkAgentUpdatePending(row, raw_token) ==
    [row EXCEPT !.agent_token_hash = hash_agent_token(raw_token), !.status = "updating"]

\* _coerce_agent_create_payload, _require_board, _ensure_unique_agent_name
CreateAgentBoard(actor, board) == IF actor = Admin THEN board ELSE agents[actor].board_id

CreateAgentOutcome(actor, name, board) ==
    LET R(code, detail) == AgentResp("create_agent", code, detail, name, NoToken) IN
    IF actor /= Admin /\ ~agents[actor].is_board_lead
        THEN R(403, "Only board leads can create agents")
    ELSE IF actor /= Admin /\ agents[actor].board_id = NULL
        THEN R(403, "Board lead must be assigned to a board")
    ELSE IF actor /= Admin /\ board /= NULL /\ board /= agents[actor].board_id
        THEN R(403, "Board leads can only create agents in their own board")
    ELSE IF CreateAgentBoard(actor, board) = NULL THEN R(422, "board_id is required")
    ELSE IF agents[name].exists /\ agents[name].board_id /= NULL
        THEN R(409, "An agent with this name already exists")
    ELSE R(200, "")

\* create_agent: _persist_new_agent, _record_session_creation and
\* _provision_new_agent, which records a provisioning failure and returns.
create_agent(actor, name, board, g) ==
    /\ handled < MaxRequests
    /\ actor = Admin \/ AgentExists(actor)
    /\ Tokens \ TokensInUse /= {}
    /\ LET out == CreateAgentOutcome(actor, name, board)
           raw_token == generate_agent_token
           in == LifecycleRunInput(name, "provision", FALSE, FALSE, raw_token, g)
           run == ProvisionRun(in, gwFiles[name], gwList)
           provisioned == run.raised = "" /\ g.wakeup
           session_error == g.fail = "ensure_session"
       IN IF out.code /= 200
          THEN resp' = out /\ UNCHANGED <<agents, events, gwList, provVars>>
          ELSE /\ agents' = [agents EXCEPT ![name] = PersistNewAgent(CreateAgentBoard(actor, board), raw_token)]
               /\ events' = events
                    \cup {Ev(IF session_error THEN "agent.session.failed" ELSE "agent.session.created", name)}
                    \cup (IF provisioned THEN {Ev("agent.provision", name), Ev("agent.wakeup.sent", name)}
                          ELSE {Ev("agent.provision.failed", name)})
               /\ Provision(in)
               /\ resp' = [out EXCEPT !.token = raw_token]
    /\ handled' = handled + 1
    /\ UNCHANGED <<tasks, deps, regOps, syncVars, streamVars, hooks, feedVars, inflight, compat, backoff>>

\* update_agent up to _resolve_agent_update_target; `updates` is what the
\* payload sets: nothing, the status, or fields of the agent's profile.
UpdateAgentOutcome(a, updates, force) ==
    LET R(code, detail) == AgentResp("update_agent", code, detail, a, NoToken) IN
    IF a \notin Workspaces \/ ~agents[a].exists THEN R(404, "")
    ELSE IF updates = "status" THEN R(403, "status is controlled by agent heartbeat")
    ELSE IF updates = "none" /\ ~force THEN R(200, "unchanged")
    ELSE IF a /= MainAgent /\ agents[a].board_id = NULL
        THEN R(422, "board_id is required for non-main agents")
    ELSE R(200, "")

\* update_agent: _apply_agent_update_mutations, _ensure_agent_update_session,
\* _mark_agent_update_pending and _provision_updated_agent.
update_agent(a, updates, force, g) ==
    /\ handled < MaxRequests
    /\ Tokens \ TokensInUse /= {}
    /\ LET out == UpdateAgentOutcome(a, updates, force)
           raw_token == generate_agent_token
           in == LifecycleRunInput(a, "update", force, TRUE, raw_token, g)
           run == ProvisionRun(in, gwFiles[a], gwList)
           provisioned == run.raised = "" /\ g.wakeup
           session_error == g.fail = "ensure_session"
           pending == MarkAgentUpdatePending(agents[a], raw_token)
       IN IF out.code /= 200 \/ out.detail = "unchanged"
          THEN resp' = out /\ UNCHANGED <<agents, events, gwList, provVars>>
          ELSE /\ agents' = [agents EXCEPT ![a] =
                                IF provisioned THEN [pending EXCEPT !.status = "online"] ELSE pending]
               /\ events' = events
                    \cup (IF session_error THEN {Ev("agent.update.failed", a)} ELSE {})
                    \cup (IF provisioned THEN {Ev("agent.update.direct", a), Ev("agent.wakeup.sent", a)}
                          ELSE {Ev("agent.update.failed", a)})
               /\ Provision(in)
               /\ resp' = IF provisioned THEN [out EXCEPT !.token = raw_token]
                          ELSE AgentResp("update_agent", 502, "Gateway update failed", a, raw_token)
    /\ handled' = handled + 1
    /\ UNCHANGED <<tasks, deps, regOps, syncVars, streamVars, hooks, feedVars, inflight, compat, backoff>>

\* delete_agent, first update_where: the in-progress tasks of the agent
ReleaseInProgressTasks(ts, a) ==
    [t \in TaskIds |->
        IF ts[t].exists /\ ts[t].assigned_agent_id = a /\ ts[t].status = "in_progress"
        THEN [ts[t] EXCEPT !.assigned_agent_id = NULL, !.status = "inbox", !.in_progress_at = FALSE]
        ELSE ts[t]]

\* Mutant: the second update_where left out.
ReleaseOtherTasks_Skipped(ts, a) == ts

\* delete_agent, second update_where: the other tasks of the agent
ReleaseOtherTasks(ts, a) ==
    [t \in TaskIds |->
        IF ts[t].exists /\ ts[t].assigned_agent_id = a /\ ts[t].status /= "in_progress"
        THEN [ts[t] EXCEPT !.assigned_agent_id = NULL]
        ELSE ts[t]]

\* delete_agent, third update_where: the activity events of the agent
DetachEvents(evs, a) == {[e EXCEPT !.agent_id = IF @ = a THEN NULL ELSE @] : e \in evs}

\* cleanup_agent: cleanup names the gateway call that fails with a gateway
\* error ("none": no call does), or is "OSError" when the first call fails
\* with an error of the connection that is none.
CleanupAgent(lst, a, cleanup) ==
    IF cleanup \in {"config.get", "config.patch", "OSError"} THEN lst ELSE RemoveAgentEntry(lst, a)

\* Mutant: the failure of the cleanup is not recorded.
DeleteFailed_Unrecorded(evs, a) == evs

\* _record_instruction_failure(session, agent, str(exc), "delete")
DeleteFailed(evs, a) == evs \cup {Ev("agent.delete.failed", a)}

DeleteAgentOutcome(a, cleanup) ==
    LET R(code, detail) == AgentResp("delete_agent", code, detail, a, NoToken) IN
    IF a \notin Workspaces \/ ~agents[a].exists THEN R(200, "")
    ELSE IF agents[a].board_id = NULL THEN R(422, "board_id is required")
    ELSE IF cleanup = "OSError" THEN R(500, "Workspace cleanup failed")
    ELSE IF cleanup /= "none" THEN R(502, "Gateway cleanup failed")
    ELSE R(200, "")

delete_agent(a, cleanup) ==
    /\ handled < MaxRequests
    /\ LET out == DeleteAgentOutcome(a, cleanup)
           found == a \in Workspaces /\ agents[a].exists
       IN /\ resp' = out
          /\ IF found /\ out.code = 200
             THEN /\ tasks' = ReleaseOtherTasks(ReleaseInProgressTasks(tasks, a), a)
                  /\ events' = DetachEvents(events \cup {Ev("agent.delete.direct", NULL)}, a)
                  /\ agents' = [agents EXCEPT ![a] = NoAgent]
                  /\ gwList' = CleanupAgent(gwList, a, cleanup)
             ELSE IF out.code \in {500, 502}
             THEN /\ events' = DeleteFailed(events, a)
                  /\ gwList' = CleanupAgent(gwList, a, cleanup)
                  /\ UNCHANGED <<agents, tasks>>
             ELSE UNCHANGED <<agents, tasks, events, gwList>>
    /\ handled' = handled + 1
    /\ UNCHANGED <<deps, regOps, provVars, syncVars, streamVars, hooks, feedVars, inflight, compat, backoff>>

(***************************************************************************)
(* services/agent_provisioning.py: the key of an agent, from which come    *)
(* its session key, its id in the gateway's agent list and its workspace   *)
(* path.  A session key is held as the list of its ":"-separated parts;    *)
(* re.sub and rstrip are tabulated on the strings that are modelled.       *)
(***************************************************************************)
\* uuid4().hex: each call draws a value of its own
Uuids == {"uuid-a", "uuid-b"}

\* re.sub(r"[^a-z0-9]+", "-", value.lower()).strip("-")
SlugOf(value) ==
    CASE value = "Worker One" -> "worker-one"
      [] value = "Lead Agent" -> "lead-agent"
      [] value = "worker one" -> "worker-one"
      [] value = "???"        -> ""
      [] OTHER -> value

\* _slugify: slug or uuid4().hex
Slugify(value, uuid) == IF SlugOf(value) = "" THEN uuid ELSE SlugOf(value)

\* workspace_root.rstrip("/")
RStripSlash(root) == IF root = "/ws/" THEN "/ws" ELSE root

\* _agent_key
AgentKey(agent, uuid) ==
    LET parts == agent.openclaw_session_id IN
    IF Len(parts) >= 2 /\ parts[1] = "agent" /\ parts[2] /= ""
    THEN parts[2]
    ELSE Slugify(agent.name, uuid)

\* _session_key
SessionKey(agent, uuid) ==
    IF agent.openclaw_session_id /= NoSession THEN agent.openclaw_session_id
    ELSE <<"agent", AgentKey(agent, uuid), "main">>

\* _workspace_path: f"{root}/workspace-{_slugify(key)}"
AgentWorkspacePath(agent, workspace_root, uuid, uuid2) ==
    [root |-> RStripSlash(workspace_root), dir |-> <<"workspace-", Slugify(AgentKey(agent, uuid), uuid2)>>]

\* The agents provisioned: named by their display name, with the session key
\* the routes build for them, a lead's session key, a key without the agent:
\* prefix, or none.
KeyedAgents ==
    {[name |-> n, openclaw_session_id |-> s] :
        n \in {"Worker One", "Lead Agent", "???"},
        s \in {NoSession, <<"agent", "worker-one", "main">>, <<"agent", "lead-b1", "main">>,
               <<"agent", "uuid-a", "main">>, <<"legacy">>}}

\* provision_agent up to the registry patch: ensure_session on the session
\* key, then _patch_gateway_agent_list with the agent id and workspace path.
\* fails names the call the gateway refuses.
ProvisionAgentKeys(agent, workspace_root, fails) ==
    /\ Len(gwList) < MaxListLen
    /\ \E u1, u2, u3, u4 \in Uuids :
        LET session_key == SessionKey(agent, u1)
            agent_id == AgentKey(agent, u2)
            workspace_path == AgentWorkspacePath(agent, workspace_root, u3, u4)
            raised == IF fails = "none" THEN "" ELSE fails
        IN /\ gwList' = IF raised = "" THEN UpsertAgentEntry(gwList, agent_id, workspace_path, "hb_default")
                        ELSE gwList
           /\ provRun' = [in |-> [agent |-> agent, workspace_root |-> workspace_root],
                          calls |-> IF raised = "ensure_session"
                                    THEN <<Call("ensure_session", session_key)>>
                                    ELSE <<Call("ensure_session", session_key),
                                           Call("config.patch", [id |-> agent_id, workspace |-> workspace_path])>>,
                          raised |-> raised, ran |-> TRUE]
    /\ UNCHANGED <<dbVars, resp, handled, regOps, gwFiles, provStart, syncVars, streamVars, hooks, feedVars, inflight, compat, backoff>>

(***************************************************************************)
(* api/board_webhooks.py and services/webhooks/dispatch.py: the ingest of  *)
(* a webhook payload and the worker that drains the delivery queue.        *)
(* services/webhooks/queue.py and GatewayDispatchService are not part of   *)
(* the sources at hand; the queue is modelled from the specification (a    *)
(* bounded queue whose enqueue answers false when full, a requeue with a   *)
(* capped retry count).                                                    *)
(***************************************************************************)
WebhookIds == {"wh1", "wh2", "wh3"}
GhostWebhook == "wh-ghost"

WebhookRow(board, enabled) == [exists |-> TRUE, board_id |-> board, enabled |-> enabled]
NoWebhook == [exists |-> FALSE, board_id |-> NULL, enabled |-> FALSE]

\* The webhooks before the requests: one on the board that has a lead, one on
\* the board that has none, one that is disabled.
InitialWebhooks ==
    [w \in WebhookIds |->
        CASE w = "wh1" -> WebhookRow("b1", TRUE)
          [] w = "wh2" -> WebhookRow("b2", TRUE)
          [] w = "wh3" -> WebhookRow("b1", FALSE)]

HooksIdle ==
    [webhooks |-> InitialWebhooks, payloads |-> {}, ingested |-> 0, queue |-> <<>>,
     sent |-> <<>>, log |-> <<>>, flush |-> "idle"]

IngestResp(code, detail, board, webhook, payload_id) ==
    [op |-> "ingest_board_webhook", code |-> code, detail |-> detail, board_id |-> board,
     webhook_id |-> webhook, payload_id |-> payload_id]

\* What the environment of one notification is: whether the lead's row has an
\* openclaw_session_id, whether the board has a gateway configuration, whether
\* the gateway took the message, and where the attempt raises, if it does.
NotifyEnvs ==
    {[session |-> e[1], config |-> e[2], delivered |-> e[3], raises |-> e[4]] :
        e \in {x \in BOOLEAN \X BOOLEAN \X BOOLEAN \X {"none", "load", "commit"} :
                    /\ (~x[1] \/ ~x[2]) => x[3]
                    /\ ~x[1] => x[2]}}

\* Agent.objects.filter_by(board_id=board.id, is_board_lead=True).first
BoardLead(board) ==
    LET leads == {a \in AgentIds : agents[a].exists /\ agents[a].board_id = board /\ agents[a].is_board_lead}
    IN IF leads = {} THEN NULL ELSE CHOOSE a \in leads : TRUE

\* _notify_lead, and _notify_lead_on_webhook_payload which has the same body:
\* the messages handed to try_send_agent_message.
NotifyLead(board, payload_id, env) ==
    IF BoardLead(board) = NULL \/ ~env.session THEN <<>>
    ELSE IF ~env.config THEN <<>>
    ELSE <<[payload_id |-> payload_id, to |-> BoardLead(board), delivered |-> env.delivered]>>

QueuedInboundDelivery(board, webhook, payload_id) ==
    [board_id |-> board, webhook_id |-> webhook, payload_id |-> payload_id, attempts |-> 0]

\* enqueue_webhook_delivery: false when the queue is full
EnqueueWebhookDelivery(queue, item) ==
    IF Len(queue) >= MaxQueue THEN [ok |-> FALSE, queue |-> queue]
    ELSE [ok |-> TRUE, queue |-> Append(queue, item)]

\* requeue_if_failed: the item goes back with one more attempt, unless the
\* retries are used up
RequeueIfFailed(queue, item) ==
    IF item.attempts + 1 > MaxRetries THEN queue
    ELSE Append(queue, [item EXCEPT !.attempts = @ + 1])

IngestOutcome(board, w) ==
    IF ~(w \in WebhookIds /\ hooks.webhooks[w].exists /\ hooks.webhooks[w].board_id = board)
    THEN IngestResp(404, "", board, w, 0)
    ELSE IF ~hooks.webhooks[w].enabled THEN IngestResp(410, "Webhook is disabled.", board, w, 0)
    ELSE IngestResp(202, "", board, w, hooks.ingested + 1)

ingest_board_webhook(board, w, env) ==
    LET out == IngestOutcome(board, w)
        payload_id == hooks.ingested + 1
        enq == EnqueueWebhookDelivery(hooks.queue, QueuedInboundDelivery(board, w, payload_id))
        messages == IF enq.ok THEN <<>> ELSE NotifyLead(board, payload_id, env)
    IN /\ resp' = out
       /\ IF out.code = 202
          THEN /\ hooks' = [hooks EXCEPT
                               !.payloads = @ \cup {[id |-> payload_id, webhook_id |-> w, board_id |-> board]},
                               !.ingested = payload_id,
                               !.queue = enq.queue,
                               !.sent = @ \o [i \in 1..Len(messages) |->
                                                [msg |-> messages[i], by |-> "ingest", attempt |-> 0]]]
               /\ boardMemory' = [boardMemory EXCEPT ![board] = Append(@, Memory(<<"webhook", payload_id>>, FALSE))]
          ELSE UNCHANGED <<hooks, boardMemory>>
       /\ UNCHANGED <<dbVars, handled, regVars, provVars, sync, streamVars, feedVars, inflight, compat, backoff>>

\* delete_board_webhook: the payloads of the webhook go with it
delete_board_webhook(w) ==
    /\ hooks.webhooks[w].exists
    /\ hooks' = [hooks EXCEPT !.webhooks[w] = NoWebhook,
                              !.payloads = {p \in @ : p.webhook_id /= w}]
    /\ resp' = IngestResp(200, "deleted", hooks.webhooks[w].board_id, w, 0)
    /\ UNCHANGED <<dbVars, handled, regVars, provVars, syncVars, streamVars, feedVars, inflight, compat, backoff>>

\* _load_webhook_payload: the payload, the board and the webhook are there
\* and belong together
LoadWebhookPayload(item) ==
    /\ \E p \in hooks.payloads : /\ p.id = item.payload_id
                                 /\ p.board_id = item.board_id
                                 /\ p.webhook_id = item.webhook_id
    /\ hooks.webhooks[item.webhook_id].exists
    /\ hooks.webhooks[item.webhook_id].board_id = item.board_id

\* _process_single_item: the messages sent and whether the attempt raised
ProcessSingleItem(item, env) ==
    IF env.raises = "load" THEN [messages |-> <<>>, raised |-> TRUE]
    ELSE IF ~LoadWebhookPayload(item) THEN [messages |-> <<>>, raised |-> FALSE]
    ELSE [messages |-> NotifyLead(item.board_id, item.payload_id, env),
          raised |-> env.raises = "commit"]

\* Mutant: the item goes back to the queue whatever the attempt did.
RequeueAfter_Always(attempt) == TRUE

\* flush_webhook_delivery_queue requeues in its except branch only
RequeueAfter(attempt) == attempt.raised

\* One turn of flush_webhook_delivery_queue's loop.
flush_webhook_delivery_queue(env) ==
    /\ hooks.queue /= <<>>
    /\ LET item == Head(hooks.queue)
           attempt == ProcessSingleItem(item, env)
           rest == Tail(hooks.queue)
       IN hooks' = [hooks EXCEPT
                       !.queue = IF RequeueAfter(attempt) THEN RequeueIfFailed(rest, item) ELSE rest,
                       !.sent = @ \o [i \in 1..Len(attempt.messages) |->
                                        [msg |-> attempt.messages[i], by |-> "worker", attempt |-> item.attempts]],
                       !.log = Append(@, [event |-> IF attempt.raised THEN "webhook.dispatch.failed"
                                                    ELSE "webhook.dispatch.success",
                                          payload_id |-> item.payload_id, attempt |-> item.attempts])]
    /\ UNCHANGED <<dbVars, resp, handled, regVars, provVars, syncVars, streamVars, feedVars, inflight, compat, backoff>>

\* flush_webhook_delivery_queue as one job: hooks.flush is where the job is.
\* The job is entered (processed = 0; while True).
FlushStart ==
    /\ hooks.flush = "idle"
    /\ hooks' = [hooks EXCEPT !.flush = "dequeue"]
    /\ UNCHANGED <<dbVars, resp, handled, regVars, provVars, syncVars, streamVars, feedVars, inflight, compat, backoff, boardMemory>>

\* dequeue_webhook_delivery raises: webhook.dispatch.dequeue_failed is
\* logged, and
FlushDequeueFails ==
    /\ hooks.flush = "dequeue"
    /\ hooks' = [hooks EXCEPT !.flush = "dequeue_failed"]
    /\ UNCHANGED <<dbVars, resp, handled, regVars, provVars, syncVars, streamVars, feedVars, inflight, compat, backoff, boardMemory>>

\* continue takes the loop back to the dequeue.
FlushContinue ==
    /\ hooks.flush = "dequeue_failed"
    /\ hooks' = [hooks EXCEPT !.flush = "dequeue"]
    /\ UNCHANGED <<dbVars, resp, handled, regVars, provVars, syncVars, streamVars, feedVars, inflight, compat, backoff, boardMemory>>

\* item is None: break, and webhook.dispatch.batch_complete is logged.
FlushQueueEmpty ==
    /\ hooks.flush = "dequeue"
    /\ hooks.queue = <<>>
    /\ hooks' = [hooks EXCEPT !.flush = "complete",
                              !.log = Append(@, [event |-> "webhook.dispatch.batch_complete",
                                                 payload_id |-> 0, attempt |-> 0])]
    /\ UNCHANGED <<dbVars, resp, handled, regVars, provVars, syncVars, streamVars, feedVars, inflight, compat, backoff, boardMemory>>

\* An item was dequeued: one turn of the loop, back to the dequeue.
FlushItem(env) ==
    /\ hooks.flush = "dequeue"
    /\ flush_webhook_delivery_queue(env)

(***************************************************************************)
(* api/agent.py: two more board-scoped agent routes.                       *)
(***************************************************************************)
\* get_board: the board, if the agent may access it
get_board(actor, board) ==
    /\ agents[actor].exists
    /\ resp' = Resp("get_board", IF GuardBoardAccessOk(actor, board) THEN 200 ELSE 403, "", {}, 0,
                     actor, board, NULL)
    /\ UNCHANGED <<dbVars, handled, regVars, provVars, syncVars, streamVars, hooks, feedVars, inflight, compat, backoff>>

\* create_board_memory: the guard, then board_memory.create_board_memory (not
\* part of the sources at hand), which adds a non-chat entry to the board
create_board_memory(actor, board) ==
    /\ agents[actor].exists
    /\ Len(boardMemory[board]) < MaxMemory
    /\ IF GuardBoardAccessOk(actor, board)
       THEN /\ resp' = Resp("create_board_memory", 200, "", {}, 0, actor, board, NULL)
            /\ boardMemory' = [boardMemory EXCEPT ![board] = Append(@, Memory(<<"note", actor>>, FALSE))]
       ELSE /\ resp' = Resp("create_board_memory", 403, "", {}, 0, actor, board, NULL)
            /\ UNCHANGED boardMemory
    /\ UNCHANGED <<dbVars, handled, regVars, provVars, sync, streamVars, hooks, feedVars, inflight, compat, backoff>>

InitHooksIdle == hooks = HooksIdle

(***************************************************************************)
(* api/agents.py: the agents stream of one subscriber.  Every write of     *)
(* last_seen_at in the sources writes updated_at with it, so that          *)
(* last_seen_at <= updated_at and the stream's filter                      *)
(* (updated_at >= since or last_seen_at >= since) is the filter on         *)
(* updated_at.                                                             *)
(***************************************************************************)
ClosedFeed ==
    [open |-> FALSE, code |-> 0, board_id |-> NULL, allowed_ids |-> {}, last_seen |-> 1,
     emitted |-> <<>>, polls |-> 0]

\* _fetch_agent_events: the rows changed at or after `since`, of the board if
\* one is given, ordered by updated_at; the order among equal updated_at is
\* the database's.
FetchAgentEvents(board_id, since) ==
    LET ids == {a \in Workspaces : /\ agents[a].exists
                                   /\ board_id /= NULL => agents[a].board_id = board_id
                                   /\ agentTimes[a] >= since}
    IN {rows \in [1..Cardinality(ids) -> ids] :
            /\ \A i, j \in DOMAIN rows : i /= j => rows[i] /= rows[j]
            /\ \A i \in 1..(Len(rows) - 1) : agentTimes[rows[i]] <= agentTimes[rows[i + 1]]}

\* stream_agents, before the generator starts: allowed_ids is read once
stream_agents(board_id, since) ==
    /\ ~agentFeed.open /\ agentFeed.code = 0
    /\ agentFeed' = IF board_id /= NULL /\ board_id \notin access
                    THEN [ClosedFeed EXCEPT !.code = 403]
                    ELSE [ClosedFeed EXCEPT !.open = TRUE, !.code = 200, !.board_id = board_id,
                                            !.allowed_ids = access, !.last_seen = since]
    /\ UNCHANGED <<dbVars, resp, handled, regVars, provVars, syncVars, streamVars, hooks, access, agentTimes, inflight, compat, backoff>>

\* One turn of event_generator's loop.
AgentPoll ==
    /\ agentFeed.open
    /\ agentFeed.polls < MaxPolls
    /\ \E fetched \in FetchAgentEvents(agentFeed.board_id, agentFeed.last_seen) :
         LET rows == IF agentFeed.board_id /= NULL THEN fetched
                     ELSE IF agentFeed.allowed_ids /= {}
                          THEN SelectSeq(fetched, LAMBDA a : agents[a].board_id \in agentFeed.allowed_ids)
                          ELSE <<>>
             newest == IF rows = <<>> THEN agentFeed.last_seen ELSE agentTimes[rows[Len(rows)]]
         IN agentFeed' = [agentFeed EXCEPT
                             !.polls = @ + 1,
                             !.last_seen = IF newest > @ THEN newest ELSE @,
                             !.emitted = @ \o [i \in 1..Len(rows) |->
                                                [agent |-> rows[i], updated_at |-> agentTimes[rows[i]],
                                                 poll |-> agentFeed.polls + 1]]]
    /\ UNCHANGED <<dbVars, resp, handled, regVars, provVars, syncVars, streamVars, hooks, access, agentTimes, inflight, compat, backoff>>

\* request.is_disconnected(): the generator ends
AgentStreamDisconnect ==
    /\ agentFeed.open
    /\ agentFeed' = [agentFeed EXCEPT !.open = FALSE]
    /\ UNCHANGED <<dbVars, resp, handled, regVars, provVars, syncVars, streamVars, hooks, access, agentTimes, inflight, compat, backoff>>

\* A write of an agent row (update, heartbeat): updated_at = utcnow()
TouchAgent(a, now) ==
    /\ agents[a].exists
    /\ \A b \in AgentIds : agentTimes[b] <= now
    /\ agentTimes[a] < now
    /\ agentTimes' = [agentTimes EXCEPT ![a] = now]
    /\ UNCHANGED <<dbVars, resp, handled, regVars, provVars, syncVars, streamVars, hooks, access, agentFeed, inflight, compat, backoff>>

\* The viewer's access to a board is granted or withdrawn
\* (list_accessible_board_ids answers `access`).
SetBoardAccess(boards) ==
    /\ access /= boards
    /\ access' = boards
    /\ UNCHANGED <<dbVars, resp, handled, regVars, provVars, syncVars, streamVars, hooks, agentTimes, agentFeed, inflight, compat, backoff>>

InitFeedIdle ==
    /\ access = Boards
    /\ agentTimes = [a \in Workspaces |-> 1]
    /\ agentFeed = ClosedFeed

(***************************************************************************)
(* api/agent.py create_task and api/agents.py update_agent, commit by      *)
(* commit: each action below is one session.commit() of the handler, and   *)
(* `inflight` holds the requests that are between two of their commits.    *)
(***************************************************************************)
RequestIds == {"r1", "r2"}
NoRequest == [op |-> "none", pc |-> "none", id |-> 0, actor |-> NULL, token |-> NoToken]
InitInflightIdle == inflight = [p \in RequestIds |-> NoRequest]

\* No compatibility check is under way.
NoCheck == [answers |-> <<>>, calls |-> <<>>, pos |-> 0, current_version |-> NULL]
InitCompatIdle == compat = NoCheck

\* A _GatewayBackoff as __init__ leaves it, no run() under way.  Times are
\* counted in ticks of 1/20 s.
BASE_DELAY == 15        \* base_delay_s = 0.75
MAX_DELAY == 600        \* max_delay_s = 30.0
TIMEOUT == 12000       \* timeout_s = 10 * 60
JITTER == 20            \* jitter = 0.2, in percent
NewBackoff ==
    [pc |-> "idle", delay |-> BASE_DELAY, calls |-> 0, now |-> 0, deadline |-> 0, attempts |-> 0,
     sleeps |-> 0, nominal |-> 0, slept |-> 0, remaining |-> 0, error |-> "", outcome |-> ""]
InitBackoffIdle == backoff = NewBackoff

\* create_task, first commit: the task row and its dependency rows
CommitTask(p, actor, board, status, assignee, ds) ==
    /\ handled < MaxRequests
    /\ inflight[p] = NoRequest
    /\ agents[actor].exists
    /\ NextTaskId \in TaskIds
    /\ CreateTaskOutcome(actor, board, status, assignee, ds).code = 200
    /\ tasks' = [tasks EXCEPT ![NextTaskId] =
                    [exists |-> TRUE, board_id |-> board, status |-> status,
                     assigned_agent_id |-> assignee, in_progress_at |-> FALSE]]
    /\ deps' = deps \cup {<<NextTaskId, d>> : d \in ds}
    /\ inflight' = [inflight EXCEPT ![p] =
                       [NoRequest EXCEPT !.op = "create_task", !.pc = "event", !.id = NextTaskId,
                                         !.actor = actor]]
    /\ handled' = handled + 1
    /\ UNCHANGED <<agents, events, resp, regVars, provVars, syncVars, streamVars, hooks, feedVars, compat, backoff>>

\* create_task, second commit: record_activity(task.created)
CommitTaskCreated(p) ==
    /\ inflight[p].op = "create_task" /\ inflight[p].pc = "event"
    /\ events' = events \cup
            {[type |-> "task.created", task_id |-> inflight[p].id, agent_id |-> inflight[p].actor]}
    /\ resp' = Resp("create_task", 200, "", BlockedBy(inflight[p].id), inflight[p].id,
                    inflight[p].actor, tasks[inflight[p].id].board_id,
                    tasks[inflight[p].id].assigned_agent_id)
    /\ inflight' = [inflight EXCEPT ![p] = NoRequest]
    /\ UNCHANGED <<agents, tasks, deps, handled, regVars, provVars, syncVars, streamVars, hooks, feedVars, compat, backoff>>

\* update_agent, the commit after _mark_agent_update_pending
CommitUpdatePending(p, a) ==
    /\ handled < MaxRequests
    /\ inflight[p] = NoRequest
    /\ \A q \in RequestIds : ~(inflight[q].op = "update_agent" /\ inflight[q].actor = a)
    /\ UpdateAgentOutcome(a, "profile", FALSE).code = 200
    /\ Tokens \ TokensInUse /= {}
    /\ agents' = [agents EXCEPT ![a] = MarkAgentUpdatePending(@, generate_agent_token)]
    /\ inflight' = [inflight EXCEPT ![p] =
                       [NoRequest EXCEPT !.op = "update_agent", !.pc = "provision", !.actor = a,
                                         !.token = generate_agent_token]]
    /\ handled' = handled + 1
    /\ UNCHANGED <<tasks, deps, events, resp, regVars, provVars, syncVars, streamVars, hooks, feedVars, compat, backoff>>

\* _provision_updated_agent, first commit: the row, once the gateway calls
\* and the wakeup message have gone through
CommitUpdated(p) ==
    /\ inflight[p].op = "update_agent" /\ inflight[p].pc = "provision"
    /\ agents' = [agents EXCEPT ![inflight[p].actor].status = "online"]
    /\ inflight' = [inflight EXCEPT ![p].pc = "event"]
    /\ UNCHANGED <<tasks, deps, events, resp, handled, regVars, provVars, syncVars, streamVars, hooks, feedVars, compat, backoff>>

\* _provision_updated_agent, second commit: agent.update.direct and
\* agent.wakeup.sent
CommitUpdateDirect(p) ==
    /\ inflight[p].op = "update_agent" /\ inflight[p].pc = "event"
    /\ events' = events \cup {Ev("agent.update.direct", inflight[p].actor),
                              Ev("agent.wakeup.sent", inflight[p].actor)}
    /\ resp' = AgentResp("update_agent", 200, "", inflight[p].actor, inflight[p].token)
    /\ inflight' = [inflight EXCEPT ![p] = NoRequest]
    /\ UNCHANGED <<agents, tasks, deps, handled, regVars, provVars, syncVars, streamVars, hooks, feedVars, compat, backoff>>

\* _provision_updated_agent, the except branch: a gateway call failed
CommitUpdateFailed(p) ==
    /\ inflight[p].op = "update_agent" /\ inflight[p].pc = "provision"
    /\ events' = events \cup {Ev("agent.update.failed", inflight[p].actor)}
    /\ resp' = AgentResp("update_agent", 502, "Gateway update failed", inflight[p].actor, inflight[p].token)
    /\ inflight' = [inflight EXCEPT ![p] = NoRequest]
    /\ UNCHANGED <<agents, tasks, deps, handled, regVars, provVars, syncVars, streamVars, hooks, feedVars, compat, backoff>>

\* A request ends between two of its commits: session.refresh raises, the
\* connection to the database is lost, the worker stops.
RequestDies(p) ==
    /\ inflight[p].pc = "event"
    /\ resp' = AgentResp(inflight[p].op, 500, "", NULL, NoToken)
    /\ inflight' = [inflight EXCEPT ![p] = NoRequest]
    /\ UNCHANGED <<dbVars, handled, regVars, provVars, syncVars, streamVars, hooks, feedVars, compat, backoff>>

(***************************************************************************)
(* api/agents.py: the agent row through update_agent, create_agent and the *)
(* heartbeat routes.  The rows of `agents` are keyed by their id; the      *)
(* requests are those of an organization admin unless an agent is named.   *)
(* The boards are attached to one gateway, whose main session key is       *)
(* MainSessionKey.                                                         *)
(***************************************************************************)
MaxRowRequests == 2

Unset == "unset"        \* a field the payload does not set (exclude_unset)

\* Mutant: the key is built without the "agent" prefix.
BuildSessionKey_NoPrefix(name, uuid) == <<Slugify(name, uuid), "main">>

\* _build_session_key
BuildSessionKey(name, uuid) == <<"agent", Slugify(name, uuid), "main">>

\* _find_gateway_for_main_session: whether a gateway has that main session key
FindGatewayForMainSession(session_key) == session_key /= NoSession /\ session_key = MainSessionKey

\* str.lower(), tabulated on the names that are modelled
Lower(name) == IF name = "Worker One" THEN "worker one"
               ELSE IF name = "Lead Agent" THEN "lead agent" ELSE name

\* What a request of the row model answers: status, detail, and the row and
\* the events it has committed when it answers.
RowResult(code, detail, row, evs) == [code |-> code, detail |-> detail, row |-> row, events |-> evs]

\* _apply_agent_update_mutations: raised (the row as it was) or committed
ApplyAgentUpdateMutations(row, updates, make_main) ==
    LET board_source == IF updates.board_id \notin {Unset, NULL} THEN updates.board_id ELSE row.board_id
        main_gateway == FindGatewayForMainSession(row.openclaw_session_id)
        marked == CASE make_main = "True" -> [row EXCEPT !.is_board_lead = FALSE,
                                                         !.openclaw_session_id = MainSessionKey]
                    [] make_main = "False" -> [row EXCEPT !.openclaw_session_id = NoSession]
                    [] OTHER -> row
        with_board == IF make_main = "True" THEN [marked EXCEPT !.board_id = NULL]
                      ELSE IF updates.board_id /= Unset THEN [marked EXCEPT !.board_id = updates.board_id]
                      ELSE marked
        with_name == IF updates.name /= Unset THEN [with_board EXCEPT !.name = updates.name] ELSE with_board
        committed == IF make_main = "None" /\ main_gateway
                     THEN [with_name EXCEPT !.board_id = NULL, !.is_board_lead = FALSE]
                     ELSE with_name
    IN IF make_main = "True" /\ board_source = NULL THEN RowResult(422, "board_id is required", row, {})
       ELSE IF make_main /= "True" /\ updates.board_id = NULL
            THEN RowResult(422, "board_id is required", row, {})
       ELSE RowResult(200, "", committed, {})

\* _resolve_agent_update_target: "main", "board", or the 422 it raises
ResolveAgentUpdateTarget(row, make_main, main_gateway) ==
    IF make_main = "True" THEN "main"
    ELSE IF make_main = "None" /\ row.board_id = NULL /\ main_gateway THEN "main"
    ELSE IF row.board_id = NULL THEN "board_id is required for non-main agents"
    ELSE "board"

\* _ensure_agent_update_session: the row after it
EnsureAgentUpdateSession(row, session_ok, uuid) ==
    IF session_ok /\ row.openclaw_session_id = NoSession
    THEN [row EXCEPT !.openclaw_session_id = BuildSessionKey(row.name, uuid)]
    ELSE row

\* update_agent, as far as the row and the events go.  `key` is the id of the
\* row; g names the gateway call that fails ("none": no call does).
UpdateAgentRow(key, row, updates, make_main, force, g, raw_token, uuid) ==
    LET mutated == ApplyAgentUpdateMutations(row, updates, make_main)
        target == ResolveAgentUpdateTarget(mutated.row, make_main,
                                           FindGatewayForMainSession(row.openclaw_session_id))
        ensured == EnsureAgentUpdateSession(mutated.row, g /= "ensure_session", uuid)
        session_failed == IF g = "ensure_session" THEN {Ev("agent.update.failed", key)} ELSE {}
        pending == MarkAgentUpdatePending(ensured, raw_token)
    IN IF ~row.exists THEN RowResult(404, "", row, {})
       ELSE IF row.board_id = NULL /\ ~FindGatewayForMainSession(row.openclaw_session_id)
            THEN RowResult(404, "", row, {})
       ELSE IF updates.board_id = Unset /\ updates.name = Unset /\ ~force /\ make_main = "None"
            THEN RowResult(200, "unchanged", row, {})
       ELSE IF mutated.code /= 200 THEN mutated
       ELSE IF target \notin {"main", "board"} THEN RowResult(422, target, mutated.row, {})
       ELSE IF g = "provision"
            THEN RowResult(502, "Gateway update failed", pending,
                           session_failed \cup {Ev("agent.update.failed", key)})
       ELSE RowResult(200, "", [pending EXCEPT !.status = "online"],
                      session_failed \cup {Ev("agent.update.direct", key), Ev("agent.wakeup.sent", key)})

UpdatePayloads == {[board_id |-> b, name |-> n] : b \in {Unset, NULL, "b1", "b2"}, n \in {Unset, "Worker One"}}

update_agent_row(a, updates, make_main, force, g) ==
    /\ handled < MaxRowRequests
    /\ Tokens \ TokensInUse /= {}
    /\ \E uuid \in Uuids :
        LET out == UpdateAgentRow(a, agents[a], updates, make_main, force, g, generate_agent_token, uuid)
        IN /\ agents' = [agents EXCEPT ![a] = out.row]
           /\ events' = events \cup out.events
           /\ resp' = AgentResp("update_agent", out.code, out.detail, a, NoToken)
    /\ handled' = handled + 1
    /\ UNCHANGED <<tasks, deps, regVars, provVars, syncVars, streamVars, hooks, feedVars, inflight, compat, backoff>>

\* The names a request may give an agent
RowNames == {"Worker One", "worker one", "helper"}

\* OFFLINE_AFTER, in minutes; the clock of the row model counts minutes
OFFLINE_AFTER == 10

\* Mutant: updating and deleting are computed over like any other status.
WithComputedStatus_SeenOnly(row, now) ==
    IF row.last_seen_at = NoTime THEN "provisioning"
    ELSE IF now - row.last_seen_at > OFFLINE_AFTER THEN "offline"
    ELSE row.status

\* _with_computed_status: the status the agents API reports at time `now`
WithComputedStatus(row, now) ==
    IF row.status \in {"deleting", "updating"} THEN row.status
    ELSE IF row.last_seen_at = NoTime THEN "provisioning"
    ELSE IF now - row.last_seen_at > OFFLINE_AFTER THEN "offline"
    ELSE row.status

\* The record of one heartbeat; `id` stands for the event row's own id.
HeartbeatEv(agent, id) == [type |-> "agent.heartbeat", task_id |-> 0, agent_id |-> agent, id |-> id]
HeartbeatEvents(evs) == {e \in evs : e.type = "agent.heartbeat"}

\* A heartbeat request with its answer: the status the payload carried
\* (NULL: none), the time of the request, and the AgentRead's computed status.
HeartbeatReq(op, actor, name) == [op |-> op, actor |-> actor, name |-> name]

HeartbeatResp(req, code, detail, agent, status_value, reported, now) ==
    [op |-> req.op, actor |-> req.actor, name |-> req.name,
     code |-> code, detail |-> detail, agent |-> agent, request_status |-> status_value,
     status |-> reported, at |-> now]

\* The id of the row a creation inserts
FreeAgentIds == {a \in AgentIds : ~agents[a].exists}
NewAgentId == CHOOSE a \in FreeAgentIds : TRUE

\* _ensure_unique_agent_name: the detail of the 409 it raises, "" if none.
\* Every board is attached to the one gateway.
EnsureUniqueAgentName(rows, board, requested_name) ==
    IF requested_name = "" THEN ""
    ELSE IF \E a \in AgentIds : rows[a].exists /\ rows[a].board_id = board
                                /\ Lower(rows[a].name) = Lower(requested_name)
        THEN "An agent with this name already exists on this board."
    ELSE IF \E a \in AgentIds : rows[a].exists /\ rows[a].board_id /= NULL
                                /\ Lower(rows[a].name) = Lower(requested_name)
        THEN "An agent with this name already exists in this gateway workspace."
    ELSE IF \E a \in AgentIds, uuid \in Uuids :
                rows[a].exists /\ rows[a].board_id /= NULL
                /\ rows[a].openclaw_session_id = BuildSessionKey(requested_name, uuid)
        THEN "This agent name would collide with an existing workspace session key. Pick a different name."
    ELSE ""

\* _persist_new_agent, with the name and the session key of the row
PersistNewAgentRow(board, name, raw_token, uuid) ==
    [PersistNewAgent(board, raw_token) EXCEPT !.name = name,
                                              !.openclaw_session_id = BuildSessionKey(name, uuid)]

\* _provision_new_agent: the events it records
ProvisionEvents(key, g) ==
    IF g = "provision" THEN {Ev("agent.provision.failed", key)}
    ELSE {Ev("agent.provision", key), Ev("agent.wakeup.sent", key)}

\* _record_session_creation and _provision_new_agent: the events of a creation
CreationEvents(key, g) ==
    {Ev(IF g = "ensure_session" THEN "agent.session.failed" ELSE "agent.session.created", key)}
    \cup ProvisionEvents(key, g)

\* create_agent by an organization admin, as far as the rows go
create_agent_row(name, board, g) ==
    /\ handled < MaxRowRequests
    /\ Tokens \ TokensInUse /= {}
    /\ FreeAgentIds /= {}
    /\ LET collision == EnsureUniqueAgentName(agents, board, name) IN
        IF collision /= ""
        THEN /\ resp' = AgentResp("create_agent", 409, collision, NULL, NoToken)
             /\ UNCHANGED <<agents, events>>
        ELSE \E uuid \in Uuids :
             /\ agents' = [agents EXCEPT ![NewAgentId] =
                                PersistNewAgentRow(board, name, generate_agent_token, uuid)]
             /\ events' = events \cup CreationEvents(NewAgentId, g)
             /\ resp' = AgentResp("create_agent", 200, "", NewAgentId, generate_agent_token)
    /\ handled' = handled + 1
    /\ UNCHANGED <<tasks, deps, regVars, provVars, syncVars, streamVars, hooks, feedVars, inflight, compat, backoff>>

\* Mutant: the heartbeat leaves a provisioning agent provisioning.
CommitHeartbeat_KeepStatus(row, status_value, now) ==
    [row EXCEPT !.status = IF status_value /= NULL THEN status_value ELSE @,
                !.last_seen_at = now]

\* _commit_heartbeat: the row it commits
CommitHeartbeat(row, status_value, now) ==
    [row EXCEPT !.status = IF status_value /= NULL THEN status_value
                           ELSE IF @ = "provisioning" THEN "online" ELSE @,
                !.last_seen_at = now]

\* The clock does not run backwards.
ClockAt(now) == \A a \in Workspaces : agents[a].last_seen_at <= now

\* A heartbeat accepted for row `a`, which the request has brought to `row`
\* with the events evs: _commit_heartbeat with its answer.
AcceptHeartbeat(op, a, row, evs, status_value, now) ==
    LET committed == CommitHeartbeat(row, status_value, now) IN
    /\ agents' = [agents EXCEPT ![a] = committed]
    /\ events' = evs \cup {HeartbeatEv(a, Cardinality(HeartbeatEvents(events)) + 1)}
    /\ resp' = HeartbeatResp(op, 200, "", a, status_value, WithComputedStatus(committed, now), now)

RejectHeartbeat(op, code, detail, a, now) ==
    /\ resp' = HeartbeatResp(op, code, detail, a, NULL, "none", now)
    /\ UNCHANGED <<agents, events>>

\* Mutant: an agent may send the heartbeat of any agent.
HeartbeatForbidden_Never(actor, a) == FALSE

\* actor.actor_type == "agent" and actor.agent and actor.agent.id != agent.id
HeartbeatForbidden(actor, a) == actor /= Admin /\ actor /= a

\* The body of heartbeat_agent, for the request req
HeartbeatAgent(req, actor, a, status_value, now) ==
    /\ handled < MaxRowRequests
    /\ ClockAt(now)
    /\ (IF actor = Admin THEN TRUE ELSE agents[actor].exists)
    /\ IF ~agents[a].exists THEN RejectHeartbeat(req, 404, "", a, now)
       ELSE IF HeartbeatForbidden(actor, a) THEN RejectHeartbeat(req, 403, "", a, now)
       ELSE IF actor = Admin /\ agents[a].board_id = NULL
               /\ ~FindGatewayForMainSession(agents[a].openclaw_session_id)
            THEN RejectHeartbeat(req, 404, "", a, now)
       ELSE AcceptHeartbeat(req, a, agents[a], events, status_value, now)
    /\ handled' = handled + 1
    /\ UNCHANGED <<tasks, deps, regVars, provVars, syncVars, streamVars, hooks, feedVars, inflight, compat, backoff>>

\* heartbeat_agent
heartbeat_agent(actor, a, status_value, now) ==
    HeartbeatAgent(HeartbeatReq("heartbeat_agent", actor, NULL), actor, a, status_value, now)

\* _heartbeat_lookup_statement: the rows the lookup can return first
HeartbeatLookup(name, board) ==
    {a \in Workspaces : agents[a].exists /\ agents[a].name = name
                        /\ (board /= NULL => agents[a].board_id = board)}

\* _handle_existing_user_heartbeat_agent and _ensure_heartbeat_session_key:
\* the row they leave, with a token when it had none and a session key
\* when it had none.
ExistingHeartbeatRow(row, raw_token, uuid) ==
    LET tokened == IF row.agent_token_hash = NoTokenHash
                   THEN [row EXCEPT !.agent_token_hash = hash_agent_token(raw_token)] ELSE row
    IN IF tokened.openclaw_session_id = NoSession
       THEN [tokened EXCEPT !.openclaw_session_id = BuildSessionKey(row.name, uuid)]
       ELSE tokened

\* heartbeat_or_create_agent by an organization admin: the heartbeat of the
\* row with that name, or _create_agent_from_heartbeat when there is none.
HeartbeatOrCreateByAdmin(name, board, status_value, now, g) ==
    LET op == HeartbeatReq("heartbeat_or_create_agent", Admin, name) IN
    /\ handled < MaxRowRequests
    /\ ClockAt(now)
    /\ Tokens \ TokensInUse /= {}
    /\ IF HeartbeatLookup(name, board) = {}
       THEN IF board = NULL THEN RejectHeartbeat(op, 422, "board_id is required", NULL, now)
            ELSE /\ FreeAgentIds /= {}
                 /\ \E uuid \in Uuids :
                        AcceptHeartbeat(op, NewAgentId,
                                        PersistNewAgentRow(board, name, generate_agent_token, uuid),
                                        events \cup CreationEvents(NewAgentId, g), status_value, now)
       ELSE \E a \in HeartbeatLookup(name, board), uuid \in Uuids :
            IF agents[a].board_id = NULL /\ ~FindGatewayForMainSession(agents[a].openclaw_session_id)
            THEN RejectHeartbeat(op, 404, "", a, now)
            ELSE IF agents[a].board_id = NULL
                    /\ (agents[a].agent_token_hash = NoTokenHash \/ agents[a].openclaw_session_id = NoSession)
            THEN RejectHeartbeat(op, 422, "board_id is required", a, now)
            ELSE AcceptHeartbeat(op, a, ExistingHeartbeatRow(agents[a], generate_agent_token, uuid),
                                 IF agents[a].agent_token_hash = NoTokenHash
                                 THEN events \cup ProvisionEvents(a, g) ELSE events,
                                 status_value, now)
    /\ handled' = handled + 1
    /\ UNCHANGED <<tasks, deps, regVars, provVars, syncVars, streamVars, hooks, feedVars, inflight, compat, backoff>>

\* heartbeat_or_create_agent: an agent token is answered by heartbeat_agent
\* for the agent of the token, whatever the payload names.
heartbeat_or_create_agent(actor, name, board, status_value, now, g) ==
    IF actor /= Admin
    THEN HeartbeatAgent(HeartbeatReq("heartbeat_or_create_agent", actor, name), actor, actor,
                        status_value, now)
    ELSE HeartbeatOrCreateByAdmin(name, board, status_value, now, g)

(***************************************************************************)
(* api/agent.py: broadcast_gateway_lead_message.  Beside the boards b1 and *)
(* b2 of the gateway there is a board b3 attached to another gateway.      *)
(***************************************************************************)
OtherBoard == "b3"
BoardGateway == [b \in Boards \cup {OtherBoard} |-> IF b = OtherBoard THEN "gw2" ELSE "gw1"]

\* Board.created_at descending
BoardsNewestFirst == <<"b3", "b2", "b1">>

\* Gateway.objects.filter_by(main_session_key=session_key).first()
GatewayOfMainSession(session_key) == IF session_key = MainSessionKey THEN "gw1" ELSE NULL

\* _require_gateway_main: the gateway, or the detail of the 403
RequireGatewayMain(row) ==
    IF row.openclaw_session_id = NoSession THEN [gateway |-> NULL, detail |-> "Agent missing session key"]
    ELSE IF GatewayOfMainSession(row.openclaw_session_id) = NULL
        THEN [gateway |-> NULL, detail |-> "Only the gateway main agent may call this endpoint."]
    ELSE [gateway |-> GatewayOfMainSession(row.openclaw_session_id), detail |-> ""]

\* Mutant: the boards are not restricted to the caller's gateway.
BroadcastBoards_AnyGateway(gateway, board_ids) ==
    SelectSeq(BoardsNewestFirst, LAMBDA b : board_ids = {} \/ b \in board_ids)

\* The select of the boards: those of the gateway, newest first, restricted
\* to payload.board_ids when the payload has any
BroadcastBoards(gateway, board_ids) ==
    SelectSeq(BoardsNewestFirst,
              LAMBDA b : BoardGateway[b] = gateway /\ (board_ids = {} \/ b \in board_ids))

\* _send_to_board: outcome says what fails for the board ("none": nothing;
\* "lead": ensure_board_lead_agent or the lead's session key; "session":
\* ensure_session; "send": send_message).
SendToBoard(board, outcome) ==
    [board_id |-> board, ok |-> outcome = "none",
     error |-> IF outcome = "none" THEN "" ELSE outcome,
     messaged |-> outcome \in {"none", "send"}]

SendOutcomes == {"none", "lead", "session", "send"}

\* broadcast_gateway_lead_message; board_ids = {} stands for a payload
\* without board_ids (or with an empty list, which the code treats alike).
broadcast_gateway_lead_message(actor, board_ids, outcomes) ==
    /\ handled < MaxRequests
    /\ agents[actor].exists
    /\ LET main == RequireGatewayMain(agents[actor])
           boards == BroadcastBoards(main.gateway, board_ids)
           results == [i \in 1..Len(boards) |-> SendToBoard(boards[i], outcomes[boards[i]])]
           sent == Cardinality({i \in 1..Len(results) : results[i].ok})
           failed == Cardinality({i \in 1..Len(results) : ~results[i].ok})
       IN IF main.gateway = NULL
          THEN /\ resp' = [op |-> "broadcast", code |-> 403, detail |-> main.detail, actor |-> actor,
                           board_ids |-> board_ids, sent |-> 0, failed |-> 0, results |-> <<>>]
               /\ UNCHANGED events
          ELSE /\ resp' = [op |-> "broadcast", code |-> 200, detail |-> "", actor |-> actor,
                           board_ids |-> board_ids, sent |-> sent, failed |-> failed, results |-> results]
               /\ events' = events \cup {Ev("gateway.main.lead_broadcast.sent", actor)}
    /\ handled' = handled + 1
    /\ UNCHANGED <<agents, tasks, deps, regVars, provVars, syncVars, streamVars, hooks, feedVars, inflight, compat, backoff>>

(***************************************************************************)
(* The status an agent is reported with: api/agents.py for the agents API, *)
(* services/board_snapshot.py for the board snapshot.                      *)
(***************************************************************************)
MaxClock == 12          \* minutes the clock of the status reads runs to

\* Mutant: an agent seen exactly OFFLINE_AFTER ago is offline already.
ComputedAgentStatus_AtLimit(row, now) ==
    IF row.status \in {"deleting", "updating"} THEN row.status
    ELSE IF row.last_seen_at = NoTime THEN "provisioning"
    ELSE IF now - row.last_seen_at >= OFFLINE_AFTER THEN "offline"
    ELSE row.status

\* board_snapshot._computed_agent_status
ComputedAgentStatus(row, now) ==
    IF row.status \in {"deleting", "updating"} THEN row.status
    ELSE IF row.last_seen_at = NoTime THEN "provisioning"
    ELSE IF now - row.last_seen_at > OFFLINE_AFTER THEN "offline"
    ELSE row.status

AgentStatuses == {"provisioning", "online", "busy", "offline", "updating", "deleting"}

\* One agent is read at time `now` through the agents API (_to_agent_read of
\* _with_computed_status) and through the board snapshot (_agent_to_read).
ReadAgentStatus(a, now) ==
    /\ agents[a].exists
    /\ agents[a].last_seen_at <= now
    /\ resp' = [op |-> "read_status", code |-> 200, agent |-> a, at |-> now,
                api |-> WithComputedStatus(agents[a], now),
                snapshot |-> ComputedAgentStatus(agents[a], now)]
    /\ UNCHANGED <<dbVars, handled, regVars, provVars, syncVars, streamVars, hooks, feedVars, inflight, compat, backoff>>

(***************************************************************************)
(* services/openclaw/gateway_compat.py, check_gateway_runtime_compatibility,*)
(* as tests/test_gateway_version_compat.py fixes it: the version sources   *)
(* are tried one after the other; a source answers with a version, without *)
(* one, or with a gateway error.                                           *)
(***************************************************************************)
\* Mutant: health is asked before status.
ProbeOrder_HealthFirst == <<"connect-metadata", "config.schema", "health", "status">>

\* The order of the version sources: the metadata of the connect handshake,
\* then the calls config.schema, status, health.
ProbeOrder == <<"connect-metadata", "config.schema", "status", "health">>

ProbeAnswers == {"version", "no_version", "error"}
GatewayVersionAnswers == [{"connect-metadata", "config.schema", "status", "health"} -> ProbeAnswers]

\* check_gateway_runtime_compatibility is called for a gateway.
StartCompatibilityCheck(answers) ==
    /\ compat = NoCheck
    /\ compat' = [answers |-> answers, calls |-> <<>>, pos |-> 1, current_version |-> NULL]
    /\ UNCHANGED <<dbVars, resp, handled, regVars, provVars, syncVars, streamVars, hooks, feedVars, inflight, backoff>>

\* The next source is asked: its version ends the check, anything else
\* falls through to the following source.
ProbeVersionSource ==
    /\ compat.pos \in 1..Len(ProbeOrder)
    /\ LET source == ProbeOrder[compat.pos] IN
        compat' = [compat EXCEPT
            !.calls = Append(@, source),
            !.current_version = IF compat.answers[source] = "version" THEN source ELSE NULL,
            !.pos = IF compat.answers[source] = "version" THEN 0
                    ELSE IF compat.pos = Len(ProbeOrder) THEN 0 ELSE compat.pos + 1]
    /\ UNCHANGED <<dbVars, resp, handled, regVars, provVars, syncVars, streamVars, hooks, feedVars, inflight, backoff>>

(***************************************************************************)
(* services/template_sync.py: _GatewayBackoff.run, attempt by attempt.     *)
(* The clock of a call starts at 0 when run() is entered and is not read   *)
(* any more when the call has ended.                                       *)
(***************************************************************************)
MaxCalls == 2           \* run() calls on one backoff object
MaxAttempts == 8        \* attempts of one call, where the calls are not left to reach the deadline

\* The messages of the gateway errors fn raises
GatewayErrorMessages ==
    {"", "unsupported file type", "Unsupported file: connection refused", "missing scope: admin",
     "invalid JSON", "Connection refused", "503 from websocket upstream", "503"}

\* message.lower()
LowerMessage(message) ==
    CASE message = "Unsupported file: connection refused" -> "unsupported file: connection refused"
      [] message = "Connection refused" -> "connection refused"
      [] message = "invalid JSON" -> "invalid json"
      [] OTHER -> message

\* marker in message, for the markers and the messages at hand
Contains(message, marker) ==
    CASE marker = "unsupported file" ->
            message \in {"unsupported file type", "unsupported file: connection refused"}
      [] marker = "connection refused" ->
            message \in {"connection refused", "unsupported file: connection refused"}
      [] marker = "503" -> message \in {"503 from websocket upstream", "503"}
      [] marker = "websocket" -> message = "503 from websocket upstream"
      [] OTHER -> FALSE

NON_TRANSIENT_MARKERS == {"unsupported file"}
\* Of the 19 transient markers, those the messages at hand are told apart by
TRANSIENT_MARKERS == {"connection refused", "http 503", "timed out"}

\* Mutant: the non-transient markers are not looked at.
IsTransientGatewayError_MarkersOnly(kind, message) ==
    /\ kind = "OpenClawGatewayError"
    /\ LowerMessage(message) /= ""
    /\ \/ Contains(LowerMessage(message), "503") /\ Contains(LowerMessage(message), "websocket")
       \/ \E m \in TRANSIENT_MARKERS : Contains(LowerMessage(message), m)

\* _is_transient_gateway_error
IsTransientGatewayError(kind, message) ==
    /\ kind = "OpenClawGatewayError"
    /\ LowerMessage(message) /= ""
    /\ ~\E m \in NON_TRANSIENT_MARKERS : Contains(LowerMessage(message), m)
    /\ \/ Contains(LowerMessage(message), "503") /\ Contains(LowerMessage(message), "websocket")
       \/ \E m \in TRANSIENT_MARKERS : Contains(LowerMessage(message), m)

Min(a, b) == IF a <= b THEN a ELSE b
Max(a, b) == IF a >= b THEN a ELSE b

\* Mutant: the sleep is not cut at the time that remains.
SleepFor_Unclipped(delay, remaining, j) == Max(0, (delay * (100 + j)) \div 100)

\* sleep_s: min(delay, remaining), times 1 + jitter (j, in percent), cut
\* to [0, remaining]
SleepFor(delay, remaining, j) ==
    Max(0, Min((Min(delay, remaining) * (100 + j)) \div 100, remaining))

\* run() is entered: deadline_s = loop.time() + timeout_s
BackoffEnter ==
    /\ backoff.pc \in {"idle", "returned", "raised"}
    /\ backoff.calls < MaxCalls
    /\ backoff' = [NewBackoff EXCEPT !.pc = "attempt", !.delay = backoff.delay,
                                     !.calls = backoff.calls + 1, !.deadline = TIMEOUT]
    /\ UNCHANGED <<dbVars, resp, handled, regVars, provVars, syncVars, streamVars, hooks, feedVars, inflight, compat>>

\* One attempt that does not raise a gateway error: fn returns a value or
\* None, or raises another exception, which _attempt does not catch.
BackoffAttemptEnds(result, d) ==
    /\ backoff.pc = "attempt"
    /\ d > 0
    /\ backoff' = [backoff EXCEPT
            !.now = 0, !.attempts = @ + 1, !.error = "", !.slept = 0, !.nominal = 0, !.remaining = 0,
            !.delay = IF result = "OSError" THEN @ ELSE BASE_DELAY,
            !.pc = IF result = "value" THEN "returned" ELSE "raised",
            !.outcome = IF result = "None" THEN "RuntimeError" ELSE result]
    /\ UNCHANGED <<dbVars, resp, handled, regVars, provVars, syncVars, streamVars, hooks, feedVars, inflight, compat>>

\* One attempt that raises OpenClawGatewayError(message) after d ticks: the
\* error is raised again, or TimeoutError is, or the loop sleeps (jitter j,
\* in percent) and doubles the delay.
BackoffAttemptFails(message, d, j) ==
    /\ backoff.pc = "attempt"
    /\ LET now == backoff.now + d
           remaining == backoff.deadline - now
           slept == SleepFor(backoff.delay, remaining, j)
           failed == [backoff EXCEPT !.now = 0, !.attempts = @ + 1, !.error = message,
                                     !.slept = 0, !.nominal = 0, !.remaining = 0]
       IN backoff' =
            IF ~IsTransientGatewayError("OpenClawGatewayError", message)
            THEN [failed EXCEPT !.pc = "raised", !.outcome = "OpenClawGatewayError"]
            ELSE IF remaining <= 0
            THEN [failed EXCEPT !.pc = "raised", !.outcome = "TimeoutError"]
            ELSE [failed EXCEPT !.now = now + slept, !.sleeps = @ + 1, !.nominal = backoff.delay,
                                !.slept = slept, !.remaining = remaining,
                                !.delay = Min(backoff.delay * 2, MAX_DELAY)]
    /\ UNCHANGED <<dbVars, resp, handled, regVars, provVars, syncVars, streamVars, hooks, feedVars, inflight, compat>>

(***************************************************************************)
(* Specifications: one per subsystem; each leaves the variables of the     *)
(* other subsystems at their idle value.                                   *)
(***************************************************************************)

InitRegistryIdle ==
    /\ gwList = <<>>
    /\ regOps = [p \in RegProcs |-> IdleOp]

InitProvisionIdle ==
    /\ gwFiles = [k \in Workspaces |-> [n \in FileNames |-> Absent]]
    /\ provStart = gwFiles
    /\ provRun = NoRun
InitTasks ==
    /\ InitDb /\ InitRegistryIdle /\ InitProvisionIdle /\ InitSyncIdle /\ InitStreamIdle
    /\ InitHooksIdle /\ InitFeedIdle /\ InitInflightIdle /\ InitCompatIdle /\ InitBackoffIdle

CreateTask ==
    \E actor \in {"lead1", "worker1"}, board \in Boards, status \in {"inbox", "in_progress"},
       assignee \in AgentIds \cup {NULL, GhostAgent}, ds \in SUBSET ExistingTasks :
        create_task(actor, board, status, assignee, ds)

LeadUpdate ==
    \E actor \in AgentIds, t \in TaskIds, fields \in SUBSET {"status", "assigned_agent_id"},
       status \in Statuses, assignee \in AgentIds \cup {NULL} :
        apply_lead_task_update(actor, t, fields, status, assignee)

NextTasks == CreateTask \/ LeadUpdate

SpecTasks == InitTasks /\ [][NextTasks]_vars

InitRegistry ==
    /\ InitDb
    /\ InitHooksIdle /\ InitFeedIdle /\ InitInflightIdle /\ InitCompatIdle /\ InitBackoffIdle
    /\ InitProvisionIdle
    /\ InitSyncIdle
    /\ InitStreamIdle
    /\ gwList \in InitialLists
    /\ regOps = [p \in RegProcs |-> IdleOp]

StartRegistryUpdate ==
    \E p \in RegProcs :
        \/ \E kind \in {"patch", "remove"}, entries \in RequestEntries(1) : RegStart(p, kind, entries)
        \/ \E entries \in RequestEntries(MaxBulk) : RegStart(p, "bulk", entries)

NextRegistry ==
    \/ StartRegistryUpdate /\ UNCHANGED <<dbVars, resp, handled, provVars, syncVars, streamVars, hooks, feedVars, inflight, compat, backoff>>
    \/ \E p \in RegProcs : RegConfigGet(p) /\ UNCHANGED <<dbVars, resp, handled, provVars, syncVars, streamVars, hooks, feedVars, inflight, compat, backoff>>
    \/ \E p \in RegProcs : RegConfigPatch(p) /\ UNCHANGED <<dbVars, resp, handled, provVars, syncVars, streamVars, hooks, feedVars, inflight, compat, backoff>>
    \/ \E p \in RegProcs : RegGatewayError(p) /\ UNCHANGED <<dbVars, resp, handled, provVars, syncVars, streamVars, hooks, feedVars, inflight, compat, backoff>>

SpecRegistry == InitRegistry /\ [][NextRegistry]_vars

InitProvision ==
    /\ InitDb
    /\ InitHooksIdle /\ InitFeedIdle /\ InitInflightIdle /\ InitCompatIdle /\ InitBackoffIdle
    /\ InitRegistryIdle
    /\ InitSyncIdle
    /\ InitStreamIdle
    /\ \E f \in [FileNames -> {Absent, Edited, Content("rendered", NoToken), Content("rendered", 2)}] :
            /\ \A n \in PRESERVE_AGENT_EDITABLE_FILES : f[n].kind \in {"absent", "edited"}
            /\ f["BOOTSTRAP.md"] \in {Absent, Content("rendered", NoToken)}
            /\ f["TOOLS.md"] \in {Absent, Content("rendered", 2)}
            /\ gwFiles = [k \in Workspaces |-> f]
    /\ provStart = gwFiles
    /\ provRun = NoRun

\* One run per behaviour: the initial states range over the workspaces a run
\* can find.
provision_agent ==
    /\ ~provRun.ran
    /\ \E in \in {i \in AllRunInputs : ~i.main} : Provision(in) /\ UNCHANGED <<dbVars, resp, handled, regOps, syncVars, streamVars, hooks, feedVars, inflight, compat, backoff>>

provision_main_agent ==
    /\ ~provRun.ran
    /\ \E in \in {i \in AllRunInputs : i.main} : Provision(in) /\ UNCHANGED <<dbVars, resp, handled, regOps, syncVars, streamVars, hooks, feedVars, inflight, compat, backoff>>

NextProvision == provision_agent \/ provision_main_agent

SpecProvision == InitProvision /\ [][NextProvision]_vars

\* The workspaces a sync can find: per agent the stored hash is of the
\* agent's own token, and TOOLS.md carries that token, a stale one or none.
StaleToken == 4

SyncWorkspace(kind, own) ==
    [n \in FileNames |->
        IF n = "TOOLS.md" /\ kind /= "none"
        THEN Content("rendered", IF kind = "match" THEN own ELSE StaleToken)
        ELSE Absent]

InitSync ==
    /\ tasks = [t \in TaskIds |-> NoTask] /\ deps = {} /\ events = {} /\ resp = NoResp /\ handled = 0 /\ InitHooksIdle /\ InitFeedIdle /\ InitInflightIdle /\ InitCompatIdle /\ InitBackoffIdle
    /\ agents = [a \in Workspaces |->
                    CASE a = "lead1"   -> NoAgent
                      [] a = "worker1" -> [BoardAgents[a] EXCEPT !.agent_token_hash = hash_agent_token(1)]
                      [] a = "worker2" -> [BoardAgents[a] EXCEPT !.agent_token_hash = hash_agent_token(2)]
                      [] a = MainAgent -> [BoardAgents[a] EXCEPT !.agent_token_hash = hash_agent_token(3)]]
    /\ InitRegistryIdle
    /\ InitStreamIdle
    /\ \E k1 \in {"match", "none", "stale"}, k2 \in {"match", "none", "stale"}, k3 \in {"match", "none"} :
            gwFiles = [k \in Workspaces |->
                          CASE k = "worker1" -> SyncWorkspace(k1, 1)
                            [] k = "worker2" -> SyncWorkspace(k2, 2)
                            [] k = MainAgent -> SyncWorkspace(k3, 3)
                            [] OTHER -> SyncWorkspace("none", 0)]
    /\ provStart = gwFiles
    /\ provRun = NoRun
    /\ boardMemory \in [Boards -> {<<>>, <<Chat("/pause")>>}]
    /\ sync = IdleSync

sync_gateway_templates ==
    \E rotate \in BOOLEAN, main \in BOOLEAN, ping \in {"", "error", "transient"} :
        StartSync([rotate_tokens |-> rotate, include_main |-> main], ping)

\* How the gateway answers a run of the sync: the call that fails, and whether
\* the failure is a transient one that lasts.
SyncOutcomes ==
    {o \in Failures \X BOOLEAN :
        /\ o[1].fail \in {"none", "ensure_session"} \/ o[1].failFile = "TOOLS.md"
        /\ o[2] => o[1].fail = "ensure_session"}

sync_one_agent ==
    \E read \in {"ok", "error", "transient"}, o \in SyncOutcomes : SyncOneAgent(read, o[1], o[2])

sync_main_agent ==
    \E resolved \in {"ok", "none", "transient"}, read \in {"ok", "error", "transient"}, o \in SyncOutcomes :
        SyncMainAgent(resolved, read, o[1], o[2])

NextSync == sync_gateway_templates \/ sync_one_agent \/ sync_main_agent

SpecSync == InitSync /\ [][NextSync]_vars

\* The boards a sync can find paused or not: what their memory holds when
\* the sync starts.  Every agent has its token in TOOLS.md.
BoardMemories ==
    {<<>>,
     <<Chat("/pause")>>,
     <<Chat(" /Pause ")>>,
     <<Chat("/pause"), Chat("/RESUME")>>,
     <<Chat("/pause"), Chat("hello")>>,
     <<Chat("/resume"), Memory("/pause", FALSE)>>,
     <<Chat("/pause"), Chat("/resume"), Chat("hello"), Chat("/pause")>>}

InitPause ==
    /\ tasks = [t \in TaskIds |-> NoTask] /\ deps = {} /\ events = {} /\ resp = NoResp /\ handled = 0 /\ InitHooksIdle /\ InitFeedIdle /\ InitInflightIdle /\ InitCompatIdle /\ InitBackoffIdle
    /\ agents = [a \in Workspaces |-> [BoardAgents[a] EXCEPT !.agent_token_hash =
                    hash_agent_token(CASE a = "lead1" -> 1 [] a = "worker1" -> 2 [] a = "worker2" -> 3 [] OTHER -> 4)]]
    /\ InitRegistryIdle
    /\ InitStreamIdle
    /\ gwFiles = [k \in Workspaces |->
                    SyncWorkspace("match", CASE k = "lead1" -> 1 [] k = "worker1" -> 2 [] k = "worker2" -> 3 [] OTHER -> 4)]
    /\ provStart = gwFiles
    /\ provRun = NoRun
    /\ boardMemory \in [Boards -> BoardMemories]
    /\ sync = IdleSync

SpecPause == InitPause /\ [][NextSync]_vars

\* Provisioning runs of agents of every kind of name and session key.
provision_agent_keys ==
    \E agent \in KeyedAgents, workspace_root \in {"/ws", "/ws/"},
       fails \in {"none", "ensure_session", "config.patch"} :
        ProvisionAgentKeys(agent, workspace_root, fails)

SpecAgentKey == InitTasks /\ [][provision_agent_keys]_vars

\* stream_task_comment_feed: the subscriber gives `since`.
InitStream ==
    /\ InitDb
    /\ InitHooksIdle /\ InitFeedIdle /\ InitInflightIdle /\ InitCompatIdle /\ InitBackoffIdle
    /\ InitRegistryIdle
    /\ InitProvisionIdle
    /\ InitSyncIdle
    /\ comments = <<>>
    /\ \E since \in Times :
            stream = [last_seen |-> since, seen_queue |-> <<>>, emitted |-> <<>>, polls |-> 0]

NextStream ==
    \/ (\E t \in Times : AddComment(t)) /\ UNCHANGED <<dbVars, resp, handled, regVars, provVars, syncVars, hooks, feedVars, inflight, compat, backoff>>
    \/ Poll /\ UNCHANGED <<dbVars, resp, handled, regVars, provVars, syncVars, hooks, feedVars, inflight, compat, backoff>>

SpecStream == InitStream /\ [][NextStream]_vars

\* The workspaces and the board before the lifecycle requests: lead1 and
\* worker1 work on board b1, worker2 is not created yet; tasks of b1 are
\* assigned, and activity events name their agents.
InitAgentTask(assignee, status) ==
    [exists |-> TRUE, board_id |-> "b1", status |-> status, assigned_agent_id |-> assignee,
     in_progress_at |-> status = "in_progress"]

InitAgents ==
    /\ agents = [a \in Workspaces |->
                    CASE a = "lead1"   -> [BoardAgents[a] EXCEPT !.agent_token_hash = hash_agent_token(1)]
                      [] a = "worker1" -> [BoardAgents[a] EXCEPT !.agent_token_hash = hash_agent_token(2)]
                      [] a = "worker2" -> NoAgent
                      [] a = MainAgent -> [BoardAgents[a] EXCEPT !.agent_token_hash = hash_agent_token(3)]]
    /\ \E t1 \in {InitAgentTask("worker1", "in_progress"), InitAgentTask("worker1", "review")},
          t2 \in {InitAgentTask("worker1", "in_progress"), InitAgentTask("worker1", "done"),
                  InitAgentTask(NULL, "inbox")} :
            tasks = [t \in TaskIds |-> IF t = 1 THEN t1 ELSE IF t = 2 THEN t2 ELSE NoTask]
    /\ deps = {}
    /\ events = {[type |-> "task.created", task_id |-> 1, agent_id |-> "lead1"],
                 [type |-> "task.comment", task_id |-> 1, agent_id |-> "worker1"]}
    /\ resp = NoResp /\ handled = 0 /\ InitHooksIdle /\ InitFeedIdle /\ InitInflightIdle /\ InitCompatIdle /\ InitBackoffIdle
    /\ InitRegistryIdle
    /\ InitSyncIdle
    /\ InitStreamIdle
    /\ gwFiles = [k \in Workspaces |->
                    CASE k = "lead1"   -> SyncWorkspace("match", 1)
                      [] k = "worker1" -> SyncWorkspace("match", 2)
                      [] k = MainAgent -> SyncWorkspace("match", 3)
                      [] OTHER -> SyncWorkspace("none", 0)]
    /\ provStart = gwFiles
    /\ provRun = NoRun

\* A request that is answered before the gateway is called is taken with one
\* gateway answer only.
NoAnswer == CHOOSE g \in GatewayAnswers : g.fail = "none" /\ g.wakeup

CreateAgent ==
    \E actor \in {Admin, "lead1", "worker1"}, name \in {"worker1", "worker2"}, board \in {"b1", NULL},
       g \in GatewayAnswers :
        /\ g = NoAnswer \/ CreateAgentOutcome(actor, name, board).code = 200
        /\ create_agent(actor, name, board, g)

UpdateAgent ==
    \E a \in {"worker1", "worker2", MainAgent}, updates \in {"none", "status", "profile"},
       force \in BOOLEAN, g \in GatewayAnswers :
        /\ g = NoAnswer \/ UpdateAgentOutcome(a, updates, force).detail = ""
        /\ update_agent(a, updates, force, g)

DeleteAgent ==
    \E a \in {"worker1", "worker2", MainAgent, GhostAgent},
       cleanup \in {"none", "config.patch", "sessions.delete", "OSError"} :
        delete_agent(a, cleanup)

NextAgents == CreateAgent \/ UpdateAgent \/ DeleteAgent

SpecAgents == InitAgents /\ [][NextAgents]_vars


(***************************************************************************)
(* C1. A task with a dependency that is not done is blocked: a lead update *)
(* of its status or assignee is answered 409 with code                     *)
(* task_blocked_cannot_transition and blocked_by_task_ids equal to the     *)
(* not-done dependencies, and the stored status and assignee stay as they  *)
(* were.                                                                   *)
(***************************************************************************)
C1_BlockedLeadUpdateRejected ==
    [][\A t \in ExistingTasks :
        (BlockedBy(t) /= {} /\ resp'.op = "lead_update" /\ resp'.task = t)
            => /\ resp'.code = 409
               /\ resp'.detail = "task_blocked_cannot_transition"
               /\ resp'.blocked_by = BlockedBy(t)
               /\ tasks'[t].status = tasks[t].status
               /\ tasks'[t].assigned_agent_id = tasks[t].assigned_agent_id]_vars

\* A task in review whose dependency was reopened, and the lead's update refused.
C1_Witness ==
    /\ resp.op = "lead_update" /\ resp.code = 409
    /\ resp.detail = "task_blocked_cannot_transition"
    /\ resp.blocked_by /= {} /\ resp.blocked_by = BlockedBy(resp.task)
    /\ tasks[resp.task].status = "review"

(***************************************************************************)
(* C2. No task is ever assigned to a board lead, and a create request of   *)
(* the board's lead that names a lead as assignee creates nothing.  As     *)
(* claimed, the answer is always 403 "Board leads cannot assign tasks to   *)
(* themselves."; in the code the dependency checks come first, so the      *)
(* answer is that 403 only when the dependency list is valid and holds no  *)
(* incomplete dependency.                                                  *)
(***************************************************************************)
LeadSelfAssignMessage == "Board leads cannot assign tasks to themselves."

NamesLeadAsAssignee(r) ==
    /\ r.op = "create_task"
    /\ AgentExists(r.actor) /\ agents[r.actor].is_board_lead /\ agents[r.actor].board_id = r.board
    /\ AgentExists(r.assignee) /\ agents[r.assignee].is_board_lead

NoTaskAssignedToLead ==
    \A t \in ExistingTasks :
        ~(AgentExists(tasks[t].assigned_agent_id) /\ agents[tasks[t].assigned_agent_id].is_board_lead)

\* The claim as stated.
C2_LeadAssigneeAlways403 ==
    NamesLeadAsAssignee(resp) => resp.code = 403 /\ resp.detail = LeadSelfAssignMessage

\* The claim as amended.
C2_LeadNeverAssigned ==
    /\ []NoTaskAssignedToLead
    /\ [][NamesLeadAsAssignee(resp')
            => /\ UNCHANGED <<tasks, deps>>
               /\ \/ resp'.code = 403 /\ resp'.detail = LeadSelfAssignMessage
                  \/ resp'.code = 409 /\ resp'.blocked_by /= {}
                  \/ resp'.code = 422 /\ resp'.detail = "dependency_invalid"]_vars

\* The lead names itself on a task without dependencies and is refused with the 403.
C2_Witness ==
    /\ NamesLeadAsAssignee(resp) /\ resp.code = 403 /\ resp.detail = LeadSelfAssignMessage
    /\ ExistingTasks /= {}

(***************************************************************************)
(* C3. SELF.md, USER.md and MEMORY.md are never overwritten: a file of     *)
(* these that exists on the gateway when a provisioning run starts gets no *)
(* agents.files.set during the run and has the same content at its end,    *)
(* whatever the run's other gateway calls answer.                          *)
(***************************************************************************)
SetIssued(name) ==
    \E i \in 1..Len(provRun.calls) : provRun.calls[i] = Call("agents.files.set", name)

C3_PreservedFilesNeverSet ==
    provRun.ran =>
        \A n \in PRESERVE_AGENT_EDITABLE_FILES :
            provStart[provRun.in.key][n] /= Absent =>
                ~SetIssued(n) /\ gwFiles[provRun.in.key][n] = provStart[provRun.in.key][n]

(***************************************************************************)
(* C4. In a template sync, an agent whose provision_agent call completes   *)
(* without raising adds one to agents_updated, nothing to agents_skipped   *)
(* and no error of its own; main_updated is true exactly when              *)
(* provision_main_agent completed without raising.                         *)
(***************************************************************************)
LastStep(s) == s.steps[Len(s.steps)]

ProvisionCompleted(s) ==
    /\ Len(s.steps) > 0
    /\ LastStep(s).provisioned
    /\ LastStep(s).raised = ""

C4_CompletedProvisionCounted ==
    [][(Len(sync'.steps) = Len(sync.steps) + 1 /\ ProvisionCompleted(sync')) =>
            IF LastStep(sync').agent = MainAgent
            THEN sync'.result.main_updated
            ELSE /\ sync'.result.agents_updated = sync.result.agents_updated + 1
                 /\ sync'.result.agents_skipped = sync.result.agents_skipped
                 /\ \A i \in 1..Len(sync'.result.errors) :
                        sync'.result.errors[i].agent /= LastStep(sync').agent]_vars

(***************************************************************************)
(* C10. In a template sync, an agent whose TOOLS.md yields no AUTH_TOKEN   *)
(* is, with rotate_tokens false, not provisioned: its stored hash and its  *)
(* workspace stay as they are, agents_skipped grows by one and one error   *)
(* naming the agent is recorded; with rotate_tokens true a new token is    *)
(* generated, its hash is stored and provision_agent runs with that token. *)
(***************************************************************************)
NoAuthTokenStep(s) ==
    /\ Len(s.steps) > 0
    /\ LastStep(s).agent /= MainAgent
    /\ ~LastStep(s).fatal
    /\ LastStep(s).existing = NoToken

C10_MissingTokenSkippedOrRotated ==
    [][(Len(sync'.steps) = Len(sync.steps) + 1 /\ NoAuthTokenStep(sync')) =>
            LET st == LastStep(sync')
                a == st.agent
            IN IF ~sync.options.rotate_tokens
               THEN /\ ~st.provisioned
                    /\ agents'[a].agent_token_hash = agents[a].agent_token_hash
                    /\ UNCHANGED <<gwFiles, gwList>>
                    /\ sync'.result.agents_skipped = sync.result.agents_skipped + 1
                    /\ sync'.result.agents_updated = sync.result.agents_updated
                    /\ Len(sync'.result.errors) = Len(sync.result.errors) + 1
                    /\ sync'.result.errors[Len(sync'.result.errors)].agent = a
               ELSE /\ st.token \in Tokens \ TokensInUse
                    /\ agents'[a].agent_token_hash = hash_agent_token(st.token)
                    /\ st.provisioned
                    /\ provRun'.in.key = a /\ provRun'.in.token = st.token
                    /\ st.raised = "" =>
                            \E i \in 1..Len(provRun'.calls) :
                                provRun'.calls[i] = Call("agents.files.set", "TOOLS.md")]_vars

\* A sync with rotate_tokens re-keyed an agent without AUTH_TOKEN and the run went through.
C10_Witness ==
    /\ NoAuthTokenStep(sync)
    /\ sync.options.rotate_tokens
    /\ LastStep(sync).rotated
    /\ LastStep(sync).provisioned /\ LastStep(sync).raised = ""
    /\ verify_agent_token(gwFiles[LastStep(sync).agent]["TOOLS.md"].token,
                          agents[LastStep(sync).agent].agent_token_hash)

(***************************************************************************)
(* C5. On the task-comment stream no event id is emitted twice to the      *)
(* subscriber.  As claimed, for any number of events and any created_at    *)
(* values; the FIFO of seen ids holds SSE_SEEN_MAX ids, so this holds as   *)
(* long as no more than SSE_SEEN_MAX events share one created_at value.    *)
(***************************************************************************)
NoIdEmittedTwice ==
    \A i, j \in 1..Len(stream.emitted) : i /= j => stream.emitted[i] /= stream.emitted[j]

AtMostSeenMaxPerInstant ==
    \A t \in Times : Cardinality({id \in 1..Len(comments) : comments[id] = t}) <= SSE_SEEN_MAX

C5_NeverEmittedTwice == NoIdEmittedTwice

C5_NotEmittedTwiceWithinFifo == AtMostSeenMaxPerInstant => NoIdEmittedTwice

\* More ids were emitted than the FIFO holds, over several polls, the events at
\* the last_seen boundary are still in the FIFO, and none was emitted twice.
C5_Witness ==
    /\ AtMostSeenMaxPerInstant
    /\ Len(stream.emitted) > SSE_SEEN_MAX
    /\ stream.polls = MaxPolls
    /\ \E id \in 1..Len(comments) : comments[id] = stream.last_seen /\ AlreadySeen(id, stream.seen_queue)
    /\ NoIdEmittedTwice

(***************************************************************************)
(* C6. Two registry updates for different agent ids that both complete     *)
(* successfully are both reflected in the final agents.list, whatever the  *)
(* interleaving of their config.get and config.patch calls.                *)
(***************************************************************************)
\* The list shows the update of op.
Reflected(op) ==
    CASE op.kind = "remove" -> op.entries[1].id \notin IdsOf(gwList)
      [] OTHER -> \A id \in OpIds(op) :
                    \E i \in 1..Len(gwList) :
                        /\ gwList[i].id = id
                        /\ gwList[i].workspace = HeartbeatEntryMap(op.entries)[id].workspace
                        /\ gwList[i].heartbeat = HeartbeatEntryMap(op.entries)[id].heartbeat

C6_NoLostRegistryUpdate ==
    (\A p \in RegProcs : regOps[p].pc = "done") => \A p \in RegProcs : Reflected(regOps[p])

\* A provision and a bulk heartbeat patch both went through and the list shows both.
C6_Witness ==
    /\ \A p \in RegProcs : regOps[p].pc = "done"
    /\ regOps["p1"].kind = "patch" /\ regOps["p2"].kind = "bulk"
    /\ Len(regOps["p2"].entries) = MaxBulk
    /\ \A p \in RegProcs : Reflected(regOps[p])

(***************************************************************************)
(* C7. A config.patch refused for a stale baseHash is retried after a      *)
(* fresh config.get, and the conflict reaches the caller only once the     *)
(* retries are used up: an update that failed on a conflict has fetched    *)
(* the configuration more than once.                                       *)
(***************************************************************************)
C7_ConflictRetriedBeforeSurfacing ==
    \A p \in RegProcs :
        (regOps[p].pc = "failed" /\ regOps[p].error = "conflict") => regOps[p].gets > 1

(***************************************************************************)
(* C8: after delete_agent succeeds for agent A, every task that was        *)
(* assigned to A with status in_progress has status inbox, no assignee and *)
(* no in_progress_at; every other task that was assigned to A has no       *)
(* assignee and its status unchanged; every activity event that referenced *)
(* A has agent_id null; A's row no longer exists, and no task or activity  *)
(* event references A.                                                     *)
(***************************************************************************)
Deleted(a) ==
    /\ resp'.op = "delete_agent" /\ resp'.code = 200 /\ resp'.agent = a
    /\ agents[a].exists

C8_DeleteReleasesTasksAndEvents ==
    [][\A a \in Workspaces :
        Deleted(a)
            => /\ ~agents'[a].exists
               /\ \A t \in ExistingTasks :
                    tasks[t].assigned_agent_id = a
                        => IF tasks[t].status = "in_progress"
                           THEN /\ tasks'[t].status = "inbox"
                                /\ tasks'[t].assigned_agent_id = NULL
                                /\ tasks'[t].in_progress_at = FALSE
                           ELSE /\ tasks'[t].status = tasks[t].status
                                /\ tasks'[t].assigned_agent_id = NULL
               /\ \A e \in events : e.agent_id = a => [e EXCEPT !.agent_id = NULL] \in events'
               /\ \A t \in TaskIds : tasks'[t].assigned_agent_id /= a
               /\ \A e \in events' : e.agent_id /= a]_vars

\* worker1 is deleted: its in-progress task 1 is back in the inbox, its done
\* task 2 is unassigned and its comment event names no agent.
C8_Witness ==
    /\ resp.op = "delete_agent" /\ resp.code = 200 /\ resp.agent = "worker1"
    /\ ~agents["worker1"].exists
    /\ tasks[1].status = "inbox" /\ tasks[1].assigned_agent_id = NULL /\ ~tasks[1].in_progress_at
    /\ tasks[2].status = "done" /\ tasks[2].assigned_agent_id = NULL
    /\ [type |-> "task.comment", task_id |-> 1, agent_id |-> NULL] \in events

(***************************************************************************)
(* C9: every agent create request and every agent update request generates *)
(* a fresh token, stores its hash on the agent record and renders the      *)
(* plaintext into the agent's TOOLS.md, so that after the request the      *)
(* AUTH_TOKEN in the gateway's TOOLS.md verifies against the stored        *)
(* agent_token_hash.                                                       *)
(* As stated this fails: an update that sets nothing and is not forced     *)
(* generates no token, and a request whose provisioning fails before       *)
(* TOOLS.md is written, or whose TOOLS.md write the gateway declines,      *)
(* leaves the new hash stored beside the old TOOLS.md.                     *)
(* What holds: a create, and an update that sets a field or is forced,     *)
(* generates a fresh token, stores its hash and hands the plaintext to the *)
(* provisioning run; if the gateway takes the run's write of TOOLS.md, the *)
(* AUTH_TOKEN there verifies against the stored hash, and otherwise        *)
(* TOOLS.md is as it was.  An update that sets nothing and is not forced   *)
(* changes neither the agent record nor the workspace.                     *)
(***************************************************************************)
\* A create or update request for agent a that was not refused.
LifecycleRequestDone(a) ==
    /\ resp'.op \in {"create_agent", "update_agent"}
    /\ resp'.agent = a
    /\ resp'.code \notin {403, 404, 409, 422}

ToolsVerifies(a) ==
    verify_agent_token(gwFiles'[a]["TOOLS.md"].token, agents'[a].agent_token_hash)

\* The gateway took the run's agents.files.set of TOOLS.md.
ToolsWritten(run) ==
    /\ \E i \in 1..Len(run.calls) : run.calls[i] = Call("agents.files.set", "TOOLS.md")
    /\ run.in.failFile /= "TOOLS.md"

TokenRotated(a) ==
    /\ resp'.token \in Tokens \ TokensInUse
    /\ agents'[a].agent_token_hash = hash_agent_token(resp'.token)

PassedAgents == {SyncedAgents[i] : i \in {j \in 1..Len(SyncedAgents) : j < sync.cursor}}

HandedToSync(a) == \E i \in 1..Len(sync.steps) : sync.steps[i].agent = a

ChatOf(b) == SelectSeq(boardMemory[b], LAMBDA e : e.is_chat)

LatestChatIsPause(b) ==
    ChatOf(b) /= <<>> /\ LowerTrim(ChatOf(b)[Len(ChatOf(b))].content) = "/pause"

\* Some chat entry is /pause and no later chat entry is /resume.
PauseNotResumed(b) ==
    \E i \in 1..Len(ChatOf(b)) :
        /\ LowerTrim(ChatOf(b)[i].content) = "/pause"
        /\ \A j \in (i + 1)..Len(ChatOf(b)) : LowerTrim(ChatOf(b)[j].content) /= "/resume"

ProvisionedInSync(a) ==
    \E i \in 1..Len(sync.steps) : sync.steps[i].agent = a /\ sync.steps[i].provisioned

C11_ExcludedIffLatestChatIsPause ==
    \A a \in PassedAgents : HandedToSync(a) <=> ~LatestChatIsPause(agents[a].board_id)

C11_ExcludedIffLatestCommandIsPause ==
    \A a \in PassedAgents :
        /\ HandedToSync(a) <=> ~PauseNotResumed(agents[a].board_id)
        /\ PauseNotResumed(agents[a].board_id) => ~ProvisionedInSync(a) /\ gwFiles[a] = provStart[a]

\* One sync has passed an agent of a paused board and provisioned an agent of
\* a board that was paused and resumed.
C11_Witness ==
    /\ sync.pc = "done"
    /\ boardMemory["b1"] = <<Chat("/pause"), Chat("hello")>>
    /\ boardMemory["b2"] = <<Chat("/pause"), Chat("/RESUME")>>
    /\ "worker1" \in PassedAgents /\ ~HandedToSync("worker1")
    /\ ProvisionedInSync("worker2")
    /\ sync.result.agents_skipped >= 2

(***************************************************************************)
(* C12: BOOTSTRAP.md is written to the gateway only on first provision     *)
(* (action other than update) or when force_bootstrap is set: a run with   *)
(* action = update and force_bootstrap = false never issues                *)
(* agents.files.set for BOOTSTRAP.md, whatever agents.files.list returns.  *)
(***************************************************************************)
C12_UpdateNeverSetsBootstrap ==
    (provRun.ran /\ provRun.in.action = "update" /\ ~provRun.in.force_bootstrap)
        => ~SetIssued("BOOTSTRAP.md")

(***************************************************************************)
(* C13: every successful provision_agent call leaves in the gateway's      *)
(* config.agents.list an entry whose id is slug(agent key) and whose       *)
(* workspace is workspace_root + "/workspace-" + slug(agent key), where    *)
(* the agent key is the second segment of the agent's agent:-prefixed      *)
(* session key or otherwise the slug of the agent name, and the same key   *)
(* is used for the session key, the registry id and the workspace path     *)
(* within one call.  Paths are compared up to a trailing "/" of the root.  *)
(***************************************************************************)
\* The session key the call passed to ensure_session, and the key it used
\* for the registry id and for the workspace.
KeysOfRun ==
    LET patch == provRun.calls[2].name IN
    [session |-> provRun.calls[1].name, id |-> patch.id, workspace |-> patch.workspace.dir[2]]

C13_OneKeyPerProvision ==
    (provRun.ran /\ provRun.raised = "")
        => LET agent == provRun.in.agent
               k == KeysOfRun
               patch == provRun.calls[2].name
           IN /\ \E i \in 1..Len(gwList) : gwList[i].id = patch.id /\ gwList[i].workspace = patch.workspace
              /\ patch.workspace.root = RStripSlash(provRun.in.workspace_root)
              /\ patch.workspace.dir[1] = "workspace-"
              /\ k.id = k.workspace
              /\ SlugOf(k.id) = k.id
              /\ (agent.openclaw_session_id = NoSession \/ agent.openclaw_session_id[1] = "agent") => k.session[2] = k.id
              /\ (agent.openclaw_session_id = <<"legacy">> /\ SlugOf(agent.name) /= "")
                    => k.id = SlugOf(agent.name)

\* The webhook pipeline: ingests, deletions of a webhook and turns of the
\* worker, on the board fixture (b1 has a lead, b2 has none).
InitWebhooks ==
    /\ agents = BoardAgents
    /\ tasks = [t \in TaskIds |-> NoTask] /\ deps = {} /\ events = {} /\ resp = NoResp /\ handled = 0
    /\ InitRegistryIdle
    /\ InitProvisionIdle
    /\ InitSyncIdle
    /\ InitStreamIdle
    /\ InitFeedIdle /\ InitInflightIdle /\ InitCompatIdle /\ InitBackoffIdle
    /\ hooks = HooksIdle

IngestWebhook ==
    /\ hooks.ingested < MaxPayloads
    /\ \E board \in Boards, w \in WebhookIds \cup {GhostWebhook}, env \in NotifyEnvs :
            /\ env.raises = "none"
            /\ ingest_board_webhook(board, w, env)

DeleteWebhook == \E w \in WebhookIds : delete_board_webhook(w)

FlushTurn == \E env \in NotifyEnvs : flush_webhook_delivery_queue(env)

NextWebhooks == IngestWebhook \/ DeleteWebhook \/ FlushTurn

SpecWebhooks == InitWebhooks /\ [][NextWebhooks]_vars

(***************************************************************************)
(* Webhook pipeline claims.                                                *)
(***************************************************************************)
AcceptedIngest == hooks'.ingested = hooks.ingested + 1
Enqueued == Len(hooks'.queue) = Len(hooks.queue) + 1
LeadNotified == Len(hooks'.sent) = Len(hooks.sent) + 1

\* C14: every accepted ingest (a known, enabled webhook) commits the payload
\* row and the non-chat board-memory row, answers 202 with the payload id, and
\* does exactly one of two things: it enqueues the delivery item, or, only when
\* the enqueue answered false, it notifies the board lead; never both, never
\* neither.
C14_EnqueueOrNotifyExactlyOne ==
    [][AcceptedIngest =>
        /\ \E p \in hooks'.payloads \ hooks.payloads : p.id = resp'.payload_id
        /\ \E b \in Boards :
                /\ Len(boardMemory'[b]) = Len(boardMemory[b]) + 1
                /\ ~boardMemory'[b][Len(boardMemory'[b])].is_chat
        /\ resp'.code = 202 /\ resp'.payload_id = hooks'.ingested
        /\ Len(hooks.queue) < MaxQueue => Enqueued /\ ~LeadNotified
        /\ Len(hooks.queue) >= MaxQueue => ~Enqueued /\ LeadNotified]_vars

\* A turn of the worker: it logs one record for the item it took.
WorkerTurn == Len(hooks'.log) = Len(hooks.log) + 1
TakenItem == Head(hooks.queue)
TurnRecord == hooks'.log[Len(hooks'.log)]
Requeued == {i \in 1..Len(hooks'.queue) : hooks'.queue[i].payload_id = TakenItem.payload_id}

\* C15: every processing attempt of the queue worker sends at most one message
\* to the board lead; an item whose attempt completed without exception is not
\* requeued and was never processed after an earlier attempt that completed;
\* a requeued item never carries fewer attempts than it had.
C15_OneMessageNoRetryAfterSuccess ==
    [][WorkerTurn =>
        /\ Len(hooks'.sent) <= Len(hooks.sent) + 1
        /\ TurnRecord.event = "webhook.dispatch.success" => Requeued = {}
        /\ \A i \in 1..Len(hooks.log) :
                hooks.log[i].payload_id = TakenItem.payload_id
                    => /\ hooks.log[i].event = "webhook.dispatch.failed"
                       /\ hooks.log[i].attempt <= TakenItem.attempts
        /\ \A i \in Requeued : hooks'.queue[i].attempts >= TakenItem.attempts]_vars

\* An item that was requeued is delivered on a later attempt.
C15_Witness ==
    \E i \in 1..Len(hooks.log), j \in 1..Len(hooks.sent) :
        /\ hooks.log[i].event = "webhook.dispatch.success"
        /\ hooks.log[i].attempt = MaxRetries
        /\ hooks.sent[j].by = "worker"
        /\ hooks.sent[j].msg.payload_id = hooks.log[i].payload_id
        /\ hooks.sent[j].attempt = hooks.log[i].attempt

\* C16: a webhook.dispatch.success record is logged for an item only if that
\* attempt sent the notification for its payload to the board lead; an item
\* whose payload, webhook, lead or gateway config is missing gets no success
\* record.
C16_SuccessOnlyIfSent ==
    [][(WorkerTurn /\ TurnRecord.event = "webhook.dispatch.success") =>
        /\ Len(hooks'.sent) = Len(hooks.sent) + 1
        /\ hooks'.sent[Len(hooks'.sent)].msg.payload_id = TakenItem.payload_id
        /\ hooks'.sent[Len(hooks'.sent)].msg.delivered]_vars

(***************************************************************************)
(* Agent task route claims.                                                *)
(***************************************************************************)
\* C17: a create request of the board's lead whose dependencies are valid and
\* not all done, and that names an assignee or a status other than inbox, is
\* answered 409 with code task_blocked_cannot_transition and
\* blocked_by_task_ids equal to the incomplete dependencies, and creates no
\* task row and no dependency row.
C17_BlockedCreateCarriesCode ==
    [][\A actor \in AgentIds, board \in Boards, status \in Statuses,
          assignee \in AgentIds \cup {NULL, GhostAgent}, ds \in SUBSET ExistingTasks :
        (/\ create_task(actor, board, status, assignee, ds)
         /\ agents[actor].is_board_lead /\ agents[actor].board_id = board
         /\ DependenciesValid(board, NextTaskId, ds)
         /\ blocked_by_dependency_ids(ds) /= {}
         /\ (assignee /= NULL \/ status /= "inbox"))
            => /\ resp'.code = 409
               /\ resp'.detail = "task_blocked_cannot_transition"
               /\ resp'.blocked_by = blocked_by_dependency_ids(ds)
               /\ UNCHANGED <<tasks, deps>>]_vars

\* The board-scoped agent routes, called by any agent for any board.
BoardRoute ==
    \E actor \in Workspaces, board \in Boards :
        \/ get_board(actor, board)
        \/ create_board_memory(actor, board)
        \/ \E status \in {"inbox", "in_progress"}, assignee \in {NULL, "worker1"} :
                create_task(actor, board, status, assignee, {})

SpecBoardRoutes == InitTasks /\ [][BoardRoute]_vars

\* C18: a request of an agent to a board-scoped agent route for a board that
\* is not the agent's own board, whatever the agent's board_id (none
\* included), is answered 403 and changes nothing.
C18_OtherBoardAlways403 ==
    [][(resp'.op \in {"get_board", "create_board_memory", "create_task"}
            /\ agents[resp'.actor].board_id /= resp'.board)
        => /\ resp'.code = 403
           /\ UNCHANGED <<tasks, deps, events, boardMemory>>]_vars

\* The agents stream: one subscriber, the agents of the board fixture, rows
\* written and the viewer's access changed while the stream is open.
InitAgentFeed ==
    /\ agents = BoardAgents
    /\ tasks = [t \in TaskIds |-> NoTask] /\ deps = {} /\ events = {} /\ resp = NoResp /\ handled = 0
    /\ InitRegistryIdle
    /\ InitProvisionIdle
    /\ InitSyncIdle
    /\ InitStreamIdle
    /\ InitHooksIdle
    /\ access \in SUBSET Boards
    /\ agentTimes = [a \in Workspaces |-> 1]
    /\ agentFeed = ClosedFeed
    /\ InitInflightIdle /\ InitCompatIdle /\ InitBackoffIdle

OpenAgentStream == \E board_id \in Boards \cup {NULL}, since \in Times : stream_agents(board_id, since)

WriteAgent == \E a \in AgentIds, now \in Times : TouchAgent(a, now)

ChangeAccess == \E boards \in SUBSET Boards : SetBoardAccess(boards)

NextAgentFeed == OpenAgentStream \/ AgentPoll \/ AgentStreamDisconnect \/ WriteAgent \/ ChangeAccess

SpecAgentFeed == InitAgentFeed /\ [][NextAgentFeed]_vars

(***************************************************************************)
(* Stream claims.                                                          *)
(***************************************************************************)
NewlyEmitted == {agentFeed'.emitted[i] : i \in (Len(agentFeed.emitted) + 1)..Len(agentFeed'.emitted)}

\* C19: at every poll the stream emits only items of boards that are in the
\* viewer's accessible set at that time; while that set is empty a poll emits
\* nothing and the stream stays open.
C19_EmitsOnlyAccessibleBoards ==
    [][agentFeed'.polls = agentFeed.polls + 1 =>
        /\ \A e \in NewlyEmitted : agents[e.agent].board_id \in access
        /\ access = {} => NewlyEmitted = {} /\ agentFeed'.open]_vars

\* C20: a subscriber of the agents stream never receives the same state of an
\* agent twice: no two events it was sent carry the same agent with the same
\* updated_at.
C20_NoAgentStateTwice ==
    \A i, j \in 1..Len(agentFeed.emitted) :
        (i < j /\ agentFeed.emitted[i].agent = agentFeed.emitted[j].agent)
            => agentFeed.emitted[i].updated_at /= agentFeed.emitted[j].updated_at

\* The handlers commit by commit, two requests at a time.
NextCommits ==
    \E p \in RequestIds :
        \/ \E actor \in {"lead1"}, board \in Boards, status \in {"inbox", "in_progress"},
              assignee \in {NULL, "worker1"}, ds \in SUBSET ExistingTasks :
                CommitTask(p, actor, board, status, assignee, ds)
        \/ CommitTaskCreated(p)
        \/ \E a \in AgentIds : CommitUpdatePending(p, a)
        \/ CommitUpdated(p)
        \/ CommitUpdateDirect(p)
        \/ CommitUpdateFailed(p)
        \/ RequestDies(p)

SpecCommits == InitTasks /\ [][NextCommits]_vars

(***************************************************************************)
(* Transaction claims.                                                     *)
(***************************************************************************)
\* C21: a state change and its activity event are committed together: the
\* commit that creates a task commits its task.created event, and the commit
\* that brings an updated agent from updating to online commits its
\* agent.update.direct event.
C21_ChangeAndEventInOneCommit ==
    [][/\ \A t \in TaskIds :
            (~tasks[t].exists /\ tasks'[t].exists)
                => \E e \in events' : e.type = "task.created" /\ e.task_id = t
       /\ \A a \in AgentIds :
            (agents[a].status = "updating" /\ agents'[a].status = "online")
                => Ev("agent.update.direct", a) \in events']_vars

\* The rows before the requests: the board fixture with one id free and
\* worker1 either online or still provisioning (never seen).
InitAgentRows ==
    /\ \E st \in {"online", "provisioning"} :
        agents = [BoardAgents EXCEPT !["worker2"] = NoAgent,
                                     !["worker1"].status = st,
                                     !["worker1"].agent_token_hash = hash_agent_token(1),
                                     !["worker1"].last_seen_at = IF st = "online" THEN 1 ELSE NoTime,
                                     !["lead1"].last_seen_at = 1,
                                     ![MainAgent].last_seen_at = 1]
    /\ tasks = [t \in TaskIds |-> NoTask] /\ deps = {} /\ events = {}
    /\ resp = NoResp /\ handled = 0
    /\ InitRegistryIdle /\ InitProvisionIdle /\ InitSyncIdle /\ InitStreamIdle
    /\ InitHooksIdle /\ InitFeedIdle /\ InitInflightIdle /\ InitCompatIdle /\ InitBackoffIdle

\* update_agent on the rows of the board fixture and the gateway's main agent.
UpdateAgentRowRequest ==
    \E a \in Workspaces, updates \in UpdatePayloads, make_main \in {"None", "True", "False"},
       force \in BOOLEAN, g \in {"none", "ensure_session", "provision"} :
        update_agent_row(a, updates, make_main, force, g)

CreateAgentRowRequest ==
    \E name \in RowNames, board \in Boards, g \in {"none", "ensure_session", "provision"} :
        create_agent_row(name, board, g)

HeartbeatStatuses == {NULL, "online", "busy"}

HeartbeatRequest ==
    \E actor \in {Admin, "worker1", "worker2"}, a \in Workspaces, status_value \in HeartbeatStatuses,
       now \in Times :
        heartbeat_agent(actor, a, status_value, now)

HeartbeatOrCreateRequest ==
    \E name \in RowNames, board \in Boards \cup {NULL}, status_value \in HeartbeatStatuses,
       now \in Times, g \in {"none", "provision"} :
        heartbeat_or_create_agent(Admin, name, board, status_value, now, g)

NextAgentRows ==
    UpdateAgentRowRequest \/ CreateAgentRowRequest \/ HeartbeatRequest \/ HeartbeatOrCreateRequest

SpecAgentRows == InitAgentRows /\ [][NextAgentRows]_vars

\* C22: an update_agent request that is answered with a 4xx status leaves
\* the agent row (board_id, is_board_lead, openclaw_session_id, name, token
\* hash, status) exactly as it was.
C22_RejectedUpdateLeavesRow ==
    [][(resp'.op = "update_agent" /\ resp'.code \in 400..499 /\ handled' = handled + 1)
            => agents' = agents]_vars

HeartbeatOps == {"heartbeat_agent", "heartbeat_or_create_agent"}
AcceptedHeartbeat == resp'.op \in HeartbeatOps /\ resp'.code = 200 /\ handled' = handled + 1
HeartbeatsOf(evs, a) == {e \in HeartbeatEvents(evs) : e.agent_id = a}

\* C24: every accepted heartbeat sets the agent's last_seen_at to the time
\* of the request and adds exactly one agent.heartbeat event, which is the
\* agent's; when the payload carries no status and the stored status is
\* provisioning (the row existed so, or the request has just created it),
\* the stored status becomes online and the status the answer reports is
\* online.
C24_HeartbeatMarksSeenAndOnline ==
    [][AcceptedHeartbeat =>
        LET a == resp'.agent IN
        /\ agents'[a].last_seen_at = resp'.at
        /\ Cardinality(HeartbeatEvents(events')) = Cardinality(HeartbeatEvents(events)) + 1
        /\ Cardinality(HeartbeatsOf(events', a)) = Cardinality(HeartbeatsOf(events, a)) + 1
        /\ (resp'.request_status = NULL /\ (~agents[a].exists \/ agents[a].status = "provisioning"))
                => agents'[a].status = "online" /\ resp'.status = "online"]_vars

\* An agent created by create_agent (provisioning, never seen) has sent its
\* first heartbeat, without a status, and is reported online.
C24_Witness ==
    /\ resp.op = "heartbeat_agent" /\ resp.code = 200 /\ resp.agent = "worker2"
    /\ resp.request_status = NULL /\ resp.status = "online"
    /\ agents["worker2"].status = "online" /\ agents["worker2"].last_seen_at = resp.at
    /\ Cardinality(HeartbeatsOf(events, "worker2")) = 1
    /\ Ev("agent.session.created", "worker2") \in events

\* C25: every agent that has a board has an openclaw_session_id that is
\* null, or starts with "agent:", or is the main session key of the gateway
\* of its board.
C25_SessionIdShape ==
    \A a \in Workspaces :
        (agents[a].exists /\ agents[a].board_id /= NULL) =>
            \/ agents[a].openclaw_session_id = NoSession
            \/ agents[a].openclaw_session_id = MainSessionKey
            \/ Head(agents[a].openclaw_session_id) = "agent"

\* The gateway's main agent has been made a board agent (is_gateway_main
\* false, with a board): its main session key was dropped and a key was
\* built from its name; and an agent has been created by a heartbeat.
C25_Witness ==
    /\ agents[MainAgent].board_id = "b1"
    /\ agents[MainAgent].openclaw_session_id = <<"agent", "main", "main">>
    /\ agents["worker2"].exists /\ agents["worker2"].last_seen_at /= NoTime

\* Agent creations only: create_agent and heartbeat-or-create.
NextAgentCreations == CreateAgentRowRequest \/ HeartbeatOrCreateRequest

SpecAgentCreations == InitAgentRows /\ [][NextAgentCreations]_vars

\* The agents on boards of the gateway (every board is attached to it)
GatewayAgents == {a \in Workspaces : agents[a].exists /\ agents[a].board_id /= NULL}

\* C26: no two agents on boards of the same gateway have the same name
\* case-insensitively, or the same openclaw_session_id.
C26_UniqueNamesAndSessions ==
    \A a \in GatewayAgents : \A b \in GatewayAgents \ {a} :
        /\ Lower(agents[a].name) /= Lower(agents[b].name)
        /\ agents[a].openclaw_session_id = NoSession
            \/ agents[a].openclaw_session_id /= agents[b].openclaw_session_id

NextCompat == (\E answers \in GatewayVersionAnswers : StartCompatibilityCheck(answers)) \/ ProbeVersionSource

SpecCompat == InitTasks /\ [][NextCompat]_vars

IsPrefix(s, t) == Len(s) <= Len(t) /\ \A i \in 1..Len(s) : s[i] = t[i]
CheckDone == compat /= NoCheck /\ compat.pos = 0
FirstWithVersion(order) ==
    {i \in 1..Len(order) : compat.answers[order[i]] = "version"
                           /\ \A j \in 1..(i - 1) : compat.answers[order[j]] /= "version"}

\* C27 as stated: the sources are tried in the order config.schema,
\* connect-metadata, status, health.
C27_SchemaFirstOrder ==
    compat /= NoCheck => IsPrefix(compat.calls, <<"config.schema", "connect-metadata", "status", "health">>)

\* C27, amended: the sources are tried in the order connect-metadata,
\* config.schema, status, health; the check uses the first source that
\* answers with a version and asks no source after it; a source that raises
\* a gateway error or answers without a version falls through to the next,
\* health being the last.
C27_ProbeOrder ==
    compat /= NoCheck =>
        /\ IsPrefix(compat.calls, <<"connect-metadata", "config.schema", "status", "health">>)
        /\ \A i \in 1..(Len(compat.calls) - 1) : compat.answers[compat.calls[i]] /= "version"
        /\ CheckDone =>
            LET order == <<"connect-metadata", "config.schema", "status", "health">>
                first == FirstWithVersion(order)
            IN IF first = {} THEN compat.current_version = NULL /\ compat.calls = order
               ELSE \A i \in first : compat.current_version = order[i] /\ Len(compat.calls) = i

\* config.schema raised a gateway error, the handshake and status had no
\* version, and the version came from health, asked last.
C27_Witness ==
    /\ CheckDone /\ compat.current_version = "health" /\ Len(compat.calls) = 4
    /\ compat.answers["config.schema"] = "error" /\ compat.answers["status"] = "no_version"

\* Any stored status and any last_seen_at (none, or a minute of the clock)
InitStatusReads ==
    /\ \E st \in AgentStatuses, seen \in {NoTime} \cup (1..MaxClock) :
        agents = [BoardAgents EXCEPT !["worker1"].status = st, !["worker1"].last_seen_at = seen]
    /\ tasks = [t \in TaskIds |-> NoTask] /\ deps = {} /\ events = {}
    /\ resp = NoResp /\ handled = 0
    /\ InitRegistryIdle /\ InitProvisionIdle /\ InitSyncIdle /\ InitStreamIdle
    /\ InitHooksIdle /\ InitFeedIdle /\ InitInflightIdle /\ InitCompatIdle /\ InitBackoffIdle

NextStatusReads == \E now \in 1..MaxClock : ReadAgentStatus("worker1", now)

SpecStatusReads == InitStatusReads /\ [][NextStatusReads]_vars

\* C28: the agents API and the board snapshot report the same status for
\* the same agent at the same time: the stored status if it is deleting or
\* updating; otherwise provisioning if last_seen_at is null; otherwise
\* offline if now - last_seen_at exceeds 10 minutes; otherwise the stored
\* status.
C28_SameComputedStatus ==
    resp.op = "read_status" =>
        LET row == agents[resp.agent] IN
        /\ resp.api = resp.snapshot
        /\ resp.snapshot = (CASE row.status = "deleting" \/ row.status = "updating" -> row.status
                              [] OTHER -> CASE row.last_seen_at = NoTime -> "provisioning"
                                            [] resp.at - row.last_seen_at > 10 -> "offline"
                                            [] OTHER -> row.status)

\* An agent stored as online and last seen eleven minutes before the read
\* is reported offline; read a minute earlier it would still be online.
C28_Witness ==
    /\ resp.op = "read_status" /\ agents["worker1"].status = "online"
    /\ resp.at - agents["worker1"].last_seen_at = 11
    /\ resp.api = "offline" /\ resp.snapshot = "offline"

\* C29: when the agents.list ping of a template sync fails, with a gateway
\* error that is not transient or by reaching the deadline of the backoff,
\* the sync ends with exactly one error record, agents_updated = 0,
\* agents_skipped = 0 and main_updated = false, no agent has been
\* provisioned (no run, no file written) and no token has been rotated.
C29_FailedPingEndsSync ==
    [][(sync.pc = "idle" /\ sync'.pc /= "idle" /\ sync'.ping /= "") =>
        /\ sync'.pc = "done"
        /\ Len(sync'.result.errors) = 1
        /\ sync'.result.agents_updated = 0 /\ sync'.result.agents_skipped = 0
        /\ ~sync'.result.main_updated
        /\ sync'.steps = <<>>
        /\ agents' = agents /\ gwFiles' = gwFiles /\ provRun' = provRun /\ gwList' = gwList]_vars

\* A sync asked to rotate tokens and to include the main agent, with an
\* agent whose TOOLS.md has no token, ended at the ping that timed out.
C29_Witness ==
    /\ sync.pc = "done" /\ sync.ping = "transient"
    /\ sync.options.rotate_tokens /\ sync.options.include_main
    /\ sync.result.errors = <<SyncError(NULL, "TimeoutError")>>
    /\ gwFiles["worker1"]["TOOLS.md"].token = NoToken

\* The lists a single-agent patch can find: up to MaxListLen entries, an id
\* possibly listed twice, with different other fields.
ListsWithRepeats ==
    {[i \in 1..Len(ks) |-> [ListedEntry(ks[i][1]) EXCEPT !.extra = ks[i][2]]] :
        ks \in DistinctSeqs(AgentKeys \X {"model", "tools"}, MaxListLen)}

InitRegistryPatch ==
    /\ InitDb
    /\ InitHooksIdle /\ InitFeedIdle /\ InitInflightIdle /\ InitCompatIdle /\ InitBackoffIdle
    /\ InitProvisionIdle
    /\ InitSyncIdle
    /\ InitStreamIdle
    /\ gwList \in ListsWithRepeats
    /\ regOps = [p \in RegProcs |-> IdleOp]

StartRegistryPatch == \E p \in RegProcs, entries \in RequestEntries(1) : RegStart(p, "patch", entries)

NextRegistryPatch ==
    \/ StartRegistryPatch /\ UNCHANGED <<dbVars, resp, handled, provVars, syncVars, streamVars, hooks, feedVars, inflight, compat, backoff>>
    \/ \E p \in RegProcs : RegConfigGet(p) /\ UNCHANGED <<dbVars, resp, handled, provVars, syncVars, streamVars, hooks, feedVars, inflight, compat, backoff>>
    \/ \E p \in RegProcs : RegConfigPatch(p) /\ UNCHANGED <<dbVars, resp, handled, provVars, syncVars, streamVars, hooks, feedVars, inflight, compat, backoff>>

SpecRegistryPatch == InitRegistryPatch /\ [][NextRegistryPatch]_vars

\* The list a pending single-agent patch sends to config.patch
SentList(op) == PatchParams(NewList(op, op.lst), op.base_hash).raw

\* C30: the list a single-agent registry patch sends has every entry of
\* another id unchanged at its position, every entry of the agent's id with
\* workspace and heartbeat replaced and its other fields kept, and, when no
\* entry had the id, exactly one entry {id, workspace, heartbeat} more, at
\* the end.
C30_PatchFrame ==
    \A p \in RegProcs :
        (regOps[p].kind = "patch" /\ regOps[p].pc = "patch") =>
            LET op == regOps[p]
                req == op.entries[1]
                lst == op.lst
                sent == SentList(op)
                listed == \E i \in 1..Len(lst) : lst[i].id = req.id
            IN /\ Len(sent) = Len(lst) + (IF listed THEN 0 ELSE 1)
               /\ \A i \in 1..Len(lst) :
                    IF lst[i].id /= req.id THEN sent[i] = lst[i]
                    ELSE /\ sent[i].id = req.id /\ sent[i].extra = lst[i].extra
                         /\ sent[i].workspace = req.workspace /\ sent[i].heartbeat = req.heartbeat
               /\ ~listed => sent[Len(sent)] = [id |-> req.id, workspace |-> req.workspace,
                                                heartbeat |-> req.heartbeat, extra |-> "none"]

\* A patch has fetched a list that names its agent twice, with different
\* other fields, and is about to send its list.
C30_Witness ==
    \E p \in RegProcs :
        /\ regOps[p].kind = "patch" /\ regOps[p].pc = "patch" /\ Len(regOps[p].lst) = 2
        /\ regOps[p].lst[1].id = regOps[p].entries[1].id
        /\ regOps[p].lst[2].id = regOps[p].entries[1].id
        /\ regOps[p].lst[1].extra /= regOps[p].lst[2].extra

NextBroadcast ==
    \E actor \in {MainAgent, "lead1", "worker1"}, board_ids \in SUBSET (Boards \cup {OtherBoard}),
       outcomes \in [Boards \cup {OtherBoard} -> SendOutcomes] :
        broadcast_gateway_lead_message(actor, board_ids, outcomes)

SpecBroadcast == InitTasks /\ [][NextBroadcast]_vars

\* C23: the results of a broadcast hold exactly one entry per board of the
\* caller's gateway that is in board_ids (every board of the gateway when
\* the payload names none); sent counts the entries with ok = true, failed
\* those with ok = false, so sent + failed = len(results); a board that fails
\* does not keep the others from their entry; and no board of another
\* gateway has an entry or a message.
C23_BroadcastResults ==
    (resp.op = "broadcast" /\ resp.code = 200) =>
        LET r == resp.results
            expected == {b \in Boards \cup {OtherBoard} :
                            BoardGateway[b] = "gw1" /\ (resp.board_ids = {} \/ b \in resp.board_ids)}
        IN /\ {r[i].board_id : i \in 1..Len(r)} = expected
           /\ Len(r) = Cardinality(expected)
           /\ resp.sent = Cardinality({i \in 1..Len(r) : r[i].ok})
           /\ resp.failed = Cardinality({i \in 1..Len(r) : ~r[i].ok})
           /\ resp.sent + resp.failed = Len(r)
           /\ \A i \in 1..Len(r) : BoardGateway[r[i].board_id] = "gw1"

\* The main agent has broadcast to every board; the first board of its
\* gateway failed and the second one was sent to all the same.
C23_Witness ==
    /\ resp.op = "broadcast" /\ resp.code = 200 /\ resp.actor = MainAgent /\ resp.board_ids = {}
    /\ Len(resp.results) = 2 /\ resp.sent = 1 /\ resp.failed = 1
    /\ ~resp.results[1].ok /\ resp.results[2].ok /\ resp.results[2].messaged

AttemptTicks == {1}
Jitters == {0 - JITTER, 0, JITTER}

BackoffAttemptEndsStep == \E result \in {"value", "None", "OSError"}, d \in AttemptTicks : BackoffAttemptEnds(result, d)
BackoffAttemptFailsStep ==
    /\ backoff.attempts < MaxAttempts
    /\ \E message \in GatewayErrorMessages, d \in AttemptTicks, j \in Jitters :
            BackoffAttemptFails(message, d, j)

NextBackoff == BackoffEnter \/ BackoffAttemptEndsStep \/ BackoffAttemptFailsStep

SpecBackoff == InitTasks /\ [][NextBackoff]_vars

\* An attempt of run() has just ended with a gateway error raised by fn.
GatewayErrorStep ==
    /\ backoff.pc = "attempt"
    /\ backoff'.attempts = backoff.attempts + 1
    /\ backoff'.outcome \in {"", "OpenClawGatewayError", "TimeoutError"}

\* Messages that are empty, contain "unsupported file" or match no transient marker
FatalMessages ==
    {"", "unsupported file type", "Unsupported file: connection refused", "missing scope: admin",
     "invalid JSON", "503"}

\* C31: a gateway error whose message is empty, contains "unsupported file"
\* (even next to a transient marker) or matches no transient marker ends
\* the call at the attempt that raised it: the error is raised again, no
\* sleep is taken; and run() sleeps and retries only after a message that
\* is not one of these.
C31_NonTransientFailsFast ==
    [][GatewayErrorStep =>
         /\ backoff'.error \in FatalMessages =>
                /\ backoff'.pc = "raised" /\ backoff'.outcome = "OpenClawGatewayError"
                /\ backoff'.sleeps = backoff.sleeps /\ backoff'.slept = 0
                /\ backoff'.delay = backoff.delay
         /\ backoff'.sleeps > backoff.sleeps =>
                /\ backoff'.error \notin FatalMessages
                /\ backoff'.pc = "attempt"]_vars

\* The first attempt of a call raised "Unsupported file: connection refused":
\* the call has ended with that error after one attempt and no sleep.
C31_Witness ==
    /\ backoff.pc = "raised" /\ backoff.outcome = "OpenClawGatewayError"
    /\ backoff.error = "Unsupported file: connection refused"
    /\ backoff.attempts = 1 /\ backoff.sleeps = 0

\* Calls whose every attempt raises a transient gateway error. run() has no
\* other wait than the attempt and the sleep, both of which end: each step
\* of the loop that can be taken is taken.
BackoffTransientStep ==
    \E d \in AttemptTicks, j \in Jitters : BackoffAttemptFails("Connection refused", d, j)

NextBackoffTransient == BackoffEnter \/ BackoffTransientStep

SpecBackoffTransient == InitTasks /\ [][NextBackoffTransient]_vars /\ WF_vars(NextBackoffTransient)

\* The call in progress has ended with TimeoutError.
TimedOut == backoff.pc = "raised" /\ backoff.outcome = "TimeoutError"

\* C32: when every attempt raises a transient gateway error, a call of
\* run() ends with TimeoutError, and not before its deadline has passed;
\* the deadline is the one set on entry, TIMEOUT after the start of the
\* call, for as long as the call lasts; and no sleep is longer than the
\* time that remained to the deadline when it began.
C32_TimesOutAtDeadline ==
    /\ [](backoff.pc = "attempt" => <>TimedOut)
    /\ [](backoff.pc = "attempt" =>
            /\ backoff.deadline = TIMEOUT
            /\ backoff.slept <= backoff.remaining
            /\ backoff.now <= backoff.deadline)
    /\ [][/\ backoff.pc = "attempt" => backoff'.deadline = backoff.deadline
          /\ TimedOut' /\ ~TimedOut => \E d \in AttemptTicks : backoff.now + d >= backoff.deadline]_vars

\* A call has timed out after ten minutes of retries, the last of which
\* slept less than the delay it was due.
C32_Witness ==
    /\ TimedOut /\ backoff.calls = 1 /\ backoff.deadline = TIMEOUT
    /\ backoff.sleeps > 20 /\ backoff.delay = MAX_DELAY

RECURSIVE Pow2(_)
Pow2(n) == IF n = 0 THEN 1 ELSE 2 * Pow2(n - 1)

\* min(0.75 * 2^(k-1), 30), in ticks
NominalDelay(k) == Min(BASE_DELAY * Pow2(k - 1), MAX_DELAY)

\* C33: in every call of run(), the delay due before the k-th retry is
\* min(0.75 * 2^(k-1), 30) seconds, the base delay before the first, and
\* the sleep taken is within 20 percent of it.
C33_NominalDelay ==
    (backoff.pc = "attempt" /\ backoff.sleeps > 0) =>
        /\ backoff.nominal = NominalDelay(backoff.sleeps)
        /\ 100 * backoff.slept >= (100 - JITTER) * backoff.nominal
        /\ 100 * backoff.slept <= (100 + JITTER) * backoff.nominal

\* patch_gateway_agent_heartbeats is called with up to MaxBulk entries.
StartBulkHeartbeats == \E p \in RegProcs, entries \in RequestEntries(MaxBulk) : RegStart(p, "bulk", entries)

NextRegistryBulk ==
    \/ StartBulkHeartbeats /\ UNCHANGED <<dbVars, resp, handled, provVars, syncVars, streamVars, hooks, feedVars, inflight, compat, backoff>>
    \/ \E p \in RegProcs : RegConfigGet(p) /\ UNCHANGED <<dbVars, resp, handled, provVars, syncVars, streamVars, hooks, feedVars, inflight, compat, backoff>>
    \/ \E p \in RegProcs : RegConfigPatch(p) /\ UNCHANGED <<dbVars, resp, handled, provVars, syncVars, streamVars, hooks, feedVars, inflight, compat, backoff>>
    \/ \E p \in RegProcs : RegGatewayError(p) /\ UNCHANGED <<dbVars, resp, handled, provVars, syncVars, streamVars, hooks, feedVars, inflight, compat, backoff>>

SpecRegistryBulk == InitRegistryPatch /\ [][NextRegistryBulk]_vars

\* The config.patch of the bulk heartbeat update of p has just succeeded.
BulkPatchSucceeds(p) ==
    regOps[p].kind = "bulk" /\ regOps[p].pc = "patch" /\ regOps'[p].pc = "done"

\* C34: after a successful bulk heartbeat config.patch the ids of
\* agents.list are the ids listed before united with the requested ids;
\* every entry of a requested id carries the requested workspace and
\* heartbeat and keeps its other fields; the entries of other ids are
\* unchanged, at their positions; the requested ids that were not listed
\* follow, one entry each.
C34_BulkHeartbeatFrame ==
    [][\A p \in RegProcs :
        BulkPatchSucceeds(p) =>
            LET req == regOps[p].entries
                ids == OpIds(regOps[p])
                Requested(e) == \E k \in 1..Len(req) :
                                    /\ req[k].id = e.id /\ req[k].workspace = e.workspace
                                    /\ req[k].heartbeat = e.heartbeat
            IN /\ IdsOf(gwList') = IdsOf(gwList) \cup ids
               /\ Len(gwList') = Len(gwList) + Cardinality(ids \ IdsOf(gwList))
               /\ \A i \in 1..Len(gwList) :
                    IF gwList[i].id \in ids
                    THEN /\ gwList'[i].id = gwList[i].id /\ gwList'[i].extra = gwList[i].extra
                         /\ Requested(gwList'[i])
                    ELSE gwList'[i] = gwList[i]
               /\ \A i \in (Len(gwList) + 1)..Len(gwList') :
                    /\ gwList'[i].id \in ids \ IdsOf(gwList)
                    /\ Requested(gwList'[i]) /\ gwList'[i].extra = "none"]_vars

\* A bulk update of two agents has succeeded on a list of two entries: one
\* of the two was listed and was rewritten, the other was appended, and the
\* entry of a third agent is as it was.
C34_Witness ==
    \E p \in RegProcs :
        /\ regOps[p].kind = "bulk" /\ regOps[p].pc = "done" /\ Len(regOps[p].entries) = 2
        /\ Len(regOps[p].lst) = 2 /\ Len(gwList) = 3
        /\ gwList = UpdatedAgentList(regOps[p].lst, regOps[p].entries)
        /\ gwList[1] = regOps[p].lst[1] /\ gwList[2] /= regOps[p].lst[2]
        /\ gwList[3].extra = "none"

\* One flush job over what was ingested before it began.  The worker runs
\* the loop without waiting for anything but its own calls and its sleep:
\* a step of the job that can be taken is taken.
IngestBeforeFlush == hooks.flush = "idle" /\ IngestWebhook

FlushStep ==
    \/ FlushDequeueFails \/ FlushContinue \/ FlushQueueEmpty
    \/ \E env \in NotifyEnvs : FlushItem(env)

NextFlush == IngestBeforeFlush \/ FlushStart \/ FlushStep

SpecFlush == InitWebhooks /\ [][NextFlush]_vars /\ WF_vars(FlushStart \/ FlushStep)

\* C35: a flush job, once entered, comes to its end: the queue is empty,
\* the loop is left and webhook.dispatch.batch_complete is logged.
C35_FlushTerminates ==
    (hooks.flush = "dequeue") ~>
        (/\ hooks.flush = "complete" /\ hooks.queue = <<>>
         /\ hooks.log[Len(hooks.log)].event = "webhook.dispatch.batch_complete")

\* The loop over the agents has just taken a turn.
AgentTurn == sync.pc = "agents" /\ sync' /= sync

\* The turn met a TimeoutError: reading TOOLS.md or provisioning.
TurnTimedOut ==
    /\ Len(sync'.steps) = Len(sync.steps) + 1
    /\ LET last == sync'.steps[Len(sync'.steps)] IN last.fatal \/ last.exc = "TimeoutError"

\* The agents the loop has not come to yet, and the main agent.
LaterAgents == {SyncedAgents[i] : i \in (sync.cursor + 1)..Len(SyncedAgents)} \cup {MainAgent}

UpdateProvisioningFailed ==
    resp'.op = "update_agent" /\ resp'.code = 502 /\ handled' = handled + 1

\* C37: an update_agent whose gateway provisioning fails leaves the row
\* committed with the changes of the payload, a new token hash and status
\* updating, and records agent.update.failed; a heartbeat without a status
\* on a row that is updating leaves it updating, and the status reported
\* for the row is updating at whatever time it is read.
C37_FailedUpdateStaysUpdating ==
    [][/\ UpdateProvisioningFailed =>
            LET a == resp'.agent IN
            /\ agents'[a].status = "updating"
            /\ agents'[a].agent_token_hash \notin {NoTokenHash, agents[a].agent_token_hash}
            /\ Ev("agent.update.failed", a) \in events'
            /\ \E updates \in UpdatePayloads, make_main \in {"None", "True", "False"} :
                    LET m == ApplyAgentUpdateMutations(agents[a], updates, make_main)
                    IN /\ m.code = 200 /\ agents'[a].name = m.row.name
                       /\ agents'[a].board_id = m.row.board_id
                       /\ agents'[a].is_board_lead = m.row.is_board_lead
            /\ \A now \in 0..MaxClock : WithComputedStatus(agents'[a], now) = "updating"
       /\ (/\ AcceptedHeartbeat /\ resp'.request_status = NULL
           /\ agents[resp'.agent].exists /\ agents[resp'.agent].status = "updating") =>
            LET a == resp'.agent IN
            /\ agents'[a].status = "updating" /\ resp'.status = "updating"
            /\ agents'[a].agent_token_hash = agents[a].agent_token_hash
            /\ \A now \in 0..MaxClock : WithComputedStatus(agents'[a], now) = "updating"]_vars

\* The provisioning of an update of worker1 failed, and worker1 has since
\* sent a heartbeat without a status: the row is updating still, under the
\* token hash of the failed update, and is reported so.
C37_Witness ==
    /\ resp.op = "heartbeat_agent" /\ resp.code = 200 /\ resp.agent = "worker1"
    /\ resp.request_status = NULL /\ resp.status = "updating"
    /\ agents["worker1"].status = "updating" /\ agents["worker1"].last_seen_at = resp.at
    /\ agents["worker1"].agent_token_hash /= hash_agent_token(1)
    /\ Ev("agent.update.failed", "worker1") \in events
    /\ Ev("agent.update.direct", "worker1") \notin events

\* delete_agent has just been answered.
DeleteAnswered == resp'.op = "delete_agent" /\ handled' = handled + 1

\* C38: a delete_agent whose cleanup_agent raised is answered 502 (gateway
\* error) or 500 (any other caught error) and leaves the agent rows, the
\* tasks and the events it found as they were, the one thing added being
\* the agent.delete.failed event of the agent; and a delete_agent that
\* changes a row or a task is one that was answered 200.
C38_FailedCleanupChangesNothing ==
    [][DeleteAnswered =>
        /\ resp'.code \in {500, 502} =>
                /\ agents' = agents /\ tasks' = tasks /\ deps' = deps
                /\ agents[resp'.agent].exists
                /\ Ev("agent.delete.failed", resp'.agent) \in events'
                /\ events' \ {Ev("agent.delete.failed", resp'.agent)} = events \ {Ev("agent.delete.failed", resp'.agent)}
                /\ Ev("agent.delete.direct", NULL) \in events' => Ev("agent.delete.direct", NULL) \in events
                /\ resp'.detail = IF resp'.code = 502 THEN "Gateway cleanup failed"
                                  ELSE "Workspace cleanup failed"
        /\ (agents' /= agents \/ tasks' /= tasks) => resp'.code = 200]_vars

\* The cleanup of worker1 failed with an error that is not a gateway error:
\* the answer is 500, worker1 is there with its task and its comment event,
\* and the failure is recorded.
C38_Witness ==
    /\ resp.op = "delete_agent" /\ resp.code = 500 /\ resp.agent = "worker1"
    /\ agents["worker1"].exists /\ tasks[1].assigned_agent_id = "worker1"
    /\ [type |-> "task.comment", task_id |-> 1, agent_id |-> "worker1"] \in events
    /\ Ev("agent.delete.failed", "worker1") \in events
    /\ Ev("agent.delete.direct", NULL) \notin events

\* The positions of sessions.reset among the calls of the run
ResetCalls == {i \in 1..Len(provRun.calls) : provRun.calls[i].method = "sessions.reset"}

\* The run issued an agents.files.set that the gateway refused, with
\* "unsupported file" or with another error.
SetCallRefused ==
    /\ provRun.in.fail \in {"set_error", "set_unsupported"}
    /\ Call("agents.files.set", provRun.in.failFile) \in {provRun.calls[i] : i \in 1..Len(provRun.calls)}

\* sessions.reset comes at most once, as the last call, after
\* ensure_session and (except for the main agent) the registry patch, and
\* only in a run that asked for it.
ResetComesLast ==
    /\ Cardinality(ResetCalls) <= 1
    /\ \A i \in ResetCalls :
            /\ i = Len(provRun.calls) /\ provRun.in.reset_session
            /\ \E j \in 1..(i - 1) : provRun.calls[j].method = "ensure_session"
            /\ ~provRun.in.main => \E j \in 1..(i - 1) : provRun.calls[j].method = "config.patch"

\* C39 as stated: in a run of provision_agent or provision_main_agent,
\* sessions.reset is issued at most once and only after ensure_session, the
\* registry patch and every agents.files.set of the run have completed
\* without raising; when an earlier call raised, there is no reset.
C39_ResetAfterAllSucceeded ==
    provRun.ran =>
        /\ ResetComesLast
        /\ (provRun.raised \notin {"", "sessions.reset"} \/ SetCallRefused) => ResetCalls = {}

\* C39, amended: sessions.reset is issued at most once, as the last call,
\* after ensure_session and the registry patch; there is none when an
\* exception left an earlier step; an agents.files.set refused with
\* "unsupported file" is passed over and the run, when it asked for the
\* reset and nothing else failed, resets the session all the same.
C39_ResetAfterNoStepFailed ==
    provRun.ran =>
        /\ ResetComesLast
        /\ provRun.raised \notin {"", "sessions.reset"} => ResetCalls = {}
        /\ (provRun.in.reset_session /\ provRun.raised \in {"", "sessions.reset"}) => ResetCalls /= {}

\* A run with reset_session set had its agents.files.set of TOOLS.md
\* refused with "unsupported file", wrote the files after it and reset the
\* session as its last call.
C39_Witness ==
    /\ provRun.ran /\ provRun.in.reset_session /\ ~provRun.in.main /\ provRun.raised = ""
    /\ provRun.in.fail = "set_unsupported" /\ provRun.in.failFile = "TOOLS.md" /\ SetCallRefused
    /\ Call("agents.files.set", "USER.md") \in {provRun.calls[i] : i \in 1..Len(provRun.calls)}
    /\ ResetCalls = {Len(provRun.calls)}

\* The heartbeat routes with every kind of actor: heartbeat_agent by the
\* admin or an agent, heartbeat-or-create by the admin or by an agent.
AgentHeartbeatOrCreateRequest ==
    \E actor \in {"worker1", "worker2"}, name \in RowNames, board \in Boards \cup {NULL},
       status_value \in HeartbeatStatuses, now \in Times :
        heartbeat_or_create_agent(actor, name, board, status_value, now, "none")

NextHeartbeats == HeartbeatRequest \/ HeartbeatOrCreateRequest \/ AgentHeartbeatOrCreateRequest

SpecHeartbeats == InitAgentRows /\ [][NextHeartbeats]_vars

\* A heartbeat request made with an agent token has just been answered.
AgentTokenHeartbeat ==
    resp'.op \in HeartbeatOps /\ handled' = handled + 1 /\ resp'.actor /= Admin

\* C40: a heartbeat request made with an agent token changes no row but
\* that of the agent of the token, creates no agent and records nothing
\* but that agent's heartbeat; heartbeat_agent for the id of another agent
\* is answered 403 (404 when the id names no agent) and changes nothing;
\* heartbeat-or-create is the heartbeat of the agent of the token, whose
\* name and board stay what they were, whatever name and board it carries.
C40_AgentTokenTouchesOwnRecord ==
    [][AgentTokenHeartbeat =>
        LET actor == resp'.actor IN
        /\ \A b \in Workspaces \ {actor} : agents'[b] = agents[b]
        /\ \A b \in Workspaces : agents'[b].exists = agents[b].exists
        /\ \A e \in events' \ events : e.type = "agent.heartbeat" /\ e.agent_id = actor
        /\ (resp'.op = "heartbeat_agent" /\ resp'.agent /= actor) =>
                /\ resp'.code = IF agents[resp'.agent].exists THEN 403 ELSE 404
                /\ agents' = agents /\ events' = events
        /\ resp'.op = "heartbeat_or_create_agent" =>
                /\ resp'.code = 200 /\ resp'.agent = actor
                /\ agents'[actor].last_seen_at = resp'.at
                /\ agents'[actor].name = agents[actor].name
                /\ agents'[actor].board_id = agents[actor].board_id
                /\ agents'[actor].agent_token_hash = agents[actor].agent_token_hash]_vars

\* worker1 has sent a heartbeat-or-create that names "helper", the name of
\* the agent worker2: the heartbeat is worker1's own, and worker2, which
\* was never seen, is as it was.
C40_Witness ==
    /\ resp.op = "heartbeat_or_create_agent" /\ resp.code = 200
    /\ resp.actor = "worker1" /\ resp.name = "helper" /\ resp.agent = "worker1"
    /\ agents["worker1"].last_seen_at = resp.at /\ agents["worker1"].name /= "helper"
    /\ agents["worker2"].exists /\ agents["worker2"].name = "helper"
    /\ Cardinality(HeartbeatsOf(events, "worker2")) = 1
    /\ Cardinality(HeartbeatsOf(events, "worker1")) = 1

====
